---- MODULE Spec2Model ----
(***************************************************************************)
(* Model of the multi-database query dispatcher of mcp_server:             *)
(*   tools/db_tools/base.py      query guard, result formatter, execute    *)
(*   tools/db_tools/sql.py       SQLAlchemy adapters                       *)
(*   tools/db_tools/snowflake.py Snowflake adapter                         *)
(*   tools/db_tools/manager.py   DatabaseManagerTool (the dispatcher)      *)
(*   tools/db_tools/config.py    DatabaseConfigTool (descriptor store)     *)
(*   tools/database.py           DatabaseTool (the public tool)            *)
(*                                                                         *)
(* Query text is a sequence of one-character strings, so that upper(),     *)
(* strip(), rstrip(';'), startswith() and the substring test are computed  *)
(* character by character as Python computes them.                         *)
(***************************************************************************)
EXTENDS Integers, Sequences, FiniteSets, TLC

VARIABLES
    query,             \* guard: the query text under test
    guard,             \* guard: outcome of the last guard operation
    database_configs,  \* the descriptors: DatabaseConfigTool.database_configs, or
                       \* the database_configs a DatabaseTool was built from
    manager,           \* the live dispatcher (DatabaseManagerTool) or None
    file,              \* content of the persisted descriptor file
    drivers,           \* optional driver packages importable in this process
    tool,              \* DatabaseTool: whether it holds a config_tool, and its manager
    discarded,         \* adapters of dispatchers that were replaced
    last,              \* outcome of the last tool operation
    fo,                \* execute_cross_database_query: locals and position
    tasks              \* coroutines running on one adapter at the same time

vars == <<query, guard, database_configs, manager, file, drivers, tool, discarded,
          last, fo, tasks>>

-----------------------------------------------------------------------------
(* Bounds of the model.                                                    *)

\* longest query text, counted in words of Atoms
MaxChunks == 4
\* longest fan-out request
MaxQueries == 2
\* most rows a backend returns for one query
MaxRows == 2

-----------------------------------------------------------------------------
(* Characters and Python's str operations.                                 *)

LowerLetters == <<"a","b","c","d","e","f","g","h","i","j","k","l","m",
                  "n","o","p","q","r","s","t","u","v","w","x","y","z">>
UpperLetters == <<"A","B","C","D","E","F","G","H","I","J","K","L","M",
                  "N","O","P","Q","R","S","T","U","V","W","X","Y","Z">>
Digits == <<"0","1","2","3","4","5","6","7","8","9">>

Range(s) == {s[i] : i \in DOMAIN s}

\* the upper-case form of each lower-case letter, and the converse
UpperOf == [c \in Range(LowerLetters) |->
               UpperLetters[CHOOSE i \in DOMAIN LowerLetters : LowerLetters[i] = c]]
LowerOf == [c \in Range(UpperLetters) |->
               LowerLetters[CHOOSE i \in DOMAIN UpperLetters : UpperLetters[i] = c]]

\* str.upper() on one character
UpperChar(c) == IF c \in DOMAIN UpperOf THEN UpperOf[c] ELSE c

\* str.lower() on one character
LowerChar(c) == IF c \in DOMAIN LowerOf THEN LowerOf[c] ELSE c

\* str.upper()
Upper(s) == [i \in DOMAIN s |-> UpperChar(s[i])]

\* the characters str.strip() removes
Whitespace == {" ", "\n", "\t"}

\* str.strip(): drop leading and trailing whitespace
Strip(s) ==
    LET keep == {i \in DOMAIN s : s[i] \notin Whitespace}
    IN  IF keep = {} THEN <<>>
        ELSE LET lo == CHOOSE i \in keep : \A j \in keep : i <= j
                 hi == CHOOSE i \in keep : \A j \in keep : j <= i
             IN  SubSeq(s, lo, hi)

\* str.rstrip(c): drop every trailing occurrence of the character c
RStrip(s, c) ==
    LET keep == {i \in DOMAIN s : s[i] # c}
    IN  IF keep = {} THEN <<>>
        ELSE SubSeq(s, 1, CHOOSE i \in keep : \A j \in keep : j <= i)

\* sub in s
Contains(s, sub) ==
    \E i \in 1..(Len(s) - Len(sub) + 1) : SubSeq(s, i, i + Len(sub) - 1) = sub

\* s.startswith(pre)
StartsWith(s, pre) ==
    Len(s) >= Len(pre) /\ SubSeq(s, 1, Len(pre)) = pre

\* str(n) of a non-negative integer
RECURSIVE NatToChars(_)
NatToChars(n) ==
    IF n < 10 THEN <<Digits[n + 1]>>
    ELSE NatToChars(n \div 10) \o <<Digits[(n % 10) + 1]>>

-----------------------------------------------------------------------------
(* Query guard: BaseDatabaseTool._validate_query and _apply_limit.         *)

kSELECT == <<"S","E","L","E","C","T">>
kWITH   == <<"W","I","T","H">>
kLIMIT  == <<"L","I","M","I","T">>

dangerous_patterns ==
    << <<"D","R","O","P">>, <<"D","E","L","E","T","E">>,
       <<"T","R","U","N","C","A","T","E">>, <<"I","N","S","E","R","T">>,
       <<"U","P","D","A","T","E">>, <<"C","R","E","A","T","E">>,
       <<"A","L","T","E","R">>, <<"G","R","A","N","T">>,
       <<"R","E","V","O","K","E">>, <<"E","X","E","C">>,
       <<"E","X","E","C","U","T","E">>, <<"C","A","L","L">>,
       <<"M","E","R","G","E">>, <<"U","P","S","E","R","T">> >>

\* f" {pattern} " in f" {query_upper} "
PatternHit(pattern, query_upper) ==
    Contains(<<" ">> \o query_upper \o <<" ">>, <<" ">> \o pattern \o <<" ">>)

\* the words of the forbidden list found in the text, in list order
PatternsHit(query_upper) ==
    {k \in DOMAIN dangerous_patterns : PatternHit(dangerous_patterns[k], query_upper)}

NoError == [raised |-> "", message |-> <<>>]

\* a mutant of _validate_query: the text is not stripped before the tests
ValidateQueryUnstripped(q) ==
    LET query_upper == Upper(q)
        hits == PatternsHit(query_upper)
    IN  IF hits # {}
        THEN [raised |-> "DatabaseQueryError",
              message |-> <<"Query contains forbidden operation: ">>
                          \o dangerous_patterns[CHOOSE k \in hits : \A j \in hits : k <= j]]
        ELSE IF ~StartsWith(query_upper, kSELECT) /\ ~StartsWith(query_upper, kWITH)
        THEN [raised |-> "DatabaseQueryError",
              message |-> <<"Only SELECT and WITH queries are allowed">>]
        ELSE NoError

\* BaseDatabaseTool._validate_query: the error raised, or NoError
ValidateQuery(q) ==
    LET query_upper == Strip(Upper(q))
        hits == PatternsHit(query_upper)
    IN  IF hits # {}
        THEN [raised |-> "DatabaseQueryError",
              message |-> <<"Query contains forbidden operation: ">>
                          \o dangerous_patterns[CHOOSE k \in hits : \A j \in hits : k <= j]]
        ELSE IF ~StartsWith(query_upper, kSELECT) /\ ~StartsWith(query_upper, kWITH)
        THEN [raised |-> "DatabaseQueryError",
              message |-> <<"Only SELECT and WITH queries are allowed">>]
        ELSE NoError

\* a mutant of _apply_limit: the LIMIT test is made on the text as written
ApplyLimitCaseSensitive(q, limit) ==
    IF Contains(q, kLIMIT) THEN q
    ELSE RStrip(q, ";") \o <<" ">> \o kLIMIT \o <<" ">> \o NatToChars(limit)

\* BaseDatabaseTool._apply_limit
ApplyLimit(q, limit) ==
    LET query_upper == Upper(q)
    IN  IF Contains(query_upper, kLIMIT) THEN q
        ELSE RStrip(q, ";") \o <<" ">> \o kLIMIT \o <<" ">> \o NatToChars(limit)

\* SnowflakeTool._apply_limit (the override)
SnowflakeApplyLimit(q, limit) ==
    LET query_upper == Upper(q)
    IN  IF Contains(query_upper, kLIMIT) THEN q
        ELSE RStrip(q, ";") \o <<" ">> \o kLIMIT \o <<" ">> \o NatToChars(limit)

-----------------------------------------------------------------------------
(* Inputs of the guard: texts built from a few words.                      *)

Atoms == { <<"S","E","L","E","C","T">>, <<"w","i","t","h">>,
           <<"d","r","o","p">>, <<"l","i","m","i","t">>,
           <<" ">>, <<";">>, <<"x">> }

RECURSIVE Flatten(_)
Flatten(ws) == IF ws = <<>> THEN <<>> ELSE Head(ws) \o Flatten(Tail(ws))

ChunkSeqs == UNION {[1..n -> Atoms] : n \in 0..MaxChunks}

Texts == {Flatten(ws) : ws \in ChunkSeqs}

\* the row limits tried (the tool's default, and a one-digit limit)
Limits == {5, 100}

GuardIdle == [op |-> "none", error |-> NoError, out |-> <<>>, limit |-> 0]

\* the state of the dispatcher part while the guard is exercised
NoConnections == [n \in {} |-> 0]

\* no coroutine is running
NoTasks == [pc |-> "idle"]

QuietRest ==
    /\ database_configs = NoConnections
    /\ manager = [exists |-> FALSE, connections |-> NoConnections]
    /\ file = [configured |-> FALSE, state |-> "absent", content |-> NoConnections]
    /\ drivers = {}
    /\ tool = [config_tool |-> FALSE]
    /\ discarded = {}
    /\ last = [op |-> "none"]
    /\ fo = [pc |-> "idle"]

GuardInit ==
    /\ query \in Texts
    /\ guard = GuardIdle
    /\ QuietRest
    /\ tasks = NoTasks

Validate ==
    /\ guard.op = "none"
    /\ guard' = [op |-> "validate", error |-> ValidateQuery(query),
                 out |-> <<>>, limit |-> 0]
    /\ UNCHANGED <<query, database_configs, manager, file, drivers, tasks, tool, discarded, last, fo>>

DoApplyLimit ==
    /\ guard.op = "none"
    /\ \E limit \in Limits :
          guard' = [op |-> "apply_limit", error |-> NoError,
                    out |-> ApplyLimit(query, limit), limit |-> limit]
    /\ UNCHANGED <<query, database_configs, manager, file, drivers, tasks, tool, discarded, last, fo>>

DoSnowflakeApplyLimit ==
    /\ guard.op = "none"
    /\ \E limit \in Limits :
          guard' = [op |-> "snowflake_apply_limit", error |-> NoError,
                    out |-> SnowflakeApplyLimit(query, limit), limit |-> limit]
    /\ UNCHANGED <<query, database_configs, manager, file, drivers, tasks, tool, discarded, last, fo>>

GuardNext == Validate \/ DoApplyLimit \/ DoSnowflakeApplyLimit

SpecGuard == GuardInit /\ [][GuardNext]_vars

-----------------------------------------------------------------------------
(* Connection descriptors.  A descriptor is a Python dict: a function from *)
(* some of the Fields to values; every value is a text (characters).       *)

Names == {"a", "b"}

tPostgresql == <<"p","o","s","t","g","r","e","s","q","l">>
tMysql      == <<"m","y","s","q","l">>
tSqlite     == <<"s","q","l","i","t","e">>
tSnowflake  == <<"s","n","o","w","f","l","a","k","e">>
tMixedCasePostgres == <<"P","o","s","t","g","r","e","S","Q","L">>

\* str.lower()
Lower(s) == [i \in DOMAIN s |-> LowerChar(s[i])]

\* dict.get(key, default)
Get(d, key, default) == IF key \in DOMAIN d THEN d[key] ELSE default

\* the dict d after d.update(e)
DictUpdate(d, e) == [k \in DOMAIN d \cup DOMAIN e |-> IF k \in DOMAIN e THEN e[k] ELSE d[k]]

\* the dict d after d[key] = value
DictSet(d, key, value) == [k \in DOMAIN d \cup {key} |-> IF k = key THEN value ELSE d[k]]

\* a mutant of del d[key]: the key stays
DictKeep(d, key) == d

\* the dict d after del d[key]
DictDel(d, key) == [k \in DOMAIN d \ {key} |-> d[k]]

\* the optional packages whose import the adapters test
AllDrivers == {"sqlalchemy", "asyncpg", "aiomysql", "aiosqlite", "snowflake"}

\* the process modelled while descriptors change: asyncpg is not installed
WithoutAsyncpg == AllDrivers \ {"asyncpg"}

NoHandle == "None"

\* BaseDatabaseTool.__init__: a new adapter is not connected and holds no handle
NewAdapter(cls, name, dbtype) ==
    [cls |-> cls, name |-> name, database_type |-> dbtype,
     is_connected |-> FALSE, handle |-> NoHandle]

\* SQLDatabaseTool.__init__: the adapter, or the ImportError it raises
SQLDatabaseToolInit(cls, connection_params, drv) ==
    LET db_type == Lower(Get(connection_params, "database_type", tPostgresql))
    IN  IF "sqlalchemy" \notin drv THEN [ok |-> FALSE]
        ELSE IF db_type = tPostgresql /\ "asyncpg" \notin drv THEN [ok |-> FALSE]
        ELSE IF db_type = tMysql /\ "aiomysql" \notin drv THEN [ok |-> FALSE]
        ELSE IF db_type = tSqlite /\ "aiosqlite" \notin drv THEN [ok |-> FALSE]
        ELSE [ok |-> TRUE,
              adapter |-> NewAdapter(cls, <<"sql_database_">> \o db_type, db_type)]

\* the class _initialize_connections picks for a descriptor
AdapterClass(config) ==
    LET db_type == Lower(Get(config, "database_type", <<>>))
    IN  IF db_type = tPostgresql THEN "PostgreSQLTool"
        ELSE IF db_type = tMysql THEN "MySQLTool"
        ELSE IF db_type = tSqlite THEN "SQLiteTool"
        ELSE IF db_type = tSnowflake THEN "SnowflakeTool"
        ELSE "SQLDatabaseTool"

\* PostgreSQLTool / MySQLTool / SQLiteTool.__init__ write database_type into the
\* dict they are given (the descriptor of the store) before anything can fail
ConfigAfterInit(config) ==
    LET cls == AdapterClass(config)
    IN  IF cls = "PostgreSQLTool" THEN DictSet(config, "database_type", tPostgresql)
        ELSE IF cls = "MySQLTool" THEN DictSet(config, "database_type", tMysql)
        ELSE IF cls = "SQLiteTool" THEN DictSet(config, "database_type", tSqlite)
        ELSE config

\* one iteration of _initialize_connections: the adapter built for a descriptor
BuildAdapter(config, drv) ==
    LET cls == AdapterClass(config)
    IN  IF cls = "SnowflakeTool"
        THEN IF "snowflake" \in drv
             THEN [ok |-> TRUE, adapter |-> NewAdapter(cls, <<"snowflake">>, tSnowflake)]
             ELSE [ok |-> FALSE]
        ELSE SQLDatabaseToolInit(cls, ConfigAfterInit(config), drv)

\* DatabaseManagerTool._initialize_connections: self.connections; a descriptor
\* whose adapter raises is logged and skipped
InitializeConnections(configs, drv) ==
    [n \in {m \in DOMAIN configs : BuildAdapter(configs[m], drv).ok} |->
        BuildAdapter(configs[n], drv).adapter]

\* the descriptor store after DatabaseManagerTool(self.database_configs): the
\* dispatcher is given the store's own dicts
ConfigsAfterBuild(configs) == [n \in DOMAIN configs |-> ConfigAfterInit(configs[n])]

\* DatabaseManagerTool.__init__
NewManager(configs, drv) ==
    [exists |-> TRUE, connections |-> InitializeConnections(configs, drv)]

NoManager == [exists |-> FALSE, connections |-> [n \in {} |-> 0]]

-----------------------------------------------------------------------------
(* Backend adapters: connect, execute_query, and BaseDatabaseTool.execute. *)
(* What the backend does (the driver's answers) is an input of each        *)
(* operation: a connect outcome and a query outcome.                       *)

Handle == "handle"

\* what the driver does in one connect(): all of it works, the engine/connection
\* cannot be created, or it is created and the "SELECT 1" probe fails
ConnectOutcomes == {"ok", "create_fails", "probe_fails"}

\* the connect outcomes tried where the handle left by a failed probe plays no part
FewConnectOutcomes == {"ok", "create_fails"}

\* what the backend does with one query: it fails, or returns n rows
QueryOutcomes == {[ok |-> FALSE, n |-> 0]} \cup {[ok |-> TRUE, n |-> k] : k \in 0..MaxRows}

\* the rows of an answer of n rows, each a dict of its columns
BackendRows(n) == [i \in 1..n |-> [id |-> i]]

SqlTypes == {tPostgresql, tMysql, tSqlite}

ConnectionError(text) == [raised |-> "DatabaseConnectionError", message |-> text]
QueryError(text) == [raised |-> "DatabaseQueryError", message |-> text]

\* a mutant of connect: the flag is set as soon as the handle exists
ConnectFlagBeforeProbe(ad, outcome) ==
    LET failure == ConnectionError(<<"Failed to connect to ">> \o ad.database_type)
    IN  IF ad.is_connected /\ ad.handle # NoHandle
        THEN [ad |-> ad, error |-> NoError]
        ELSE IF outcome = "create_fails"
        THEN [ad |-> [ad EXCEPT !.is_connected = FALSE], error |-> failure]
        ELSE IF outcome = "probe_fails"
        THEN [ad |-> [ad EXCEPT !.handle = Handle, !.is_connected = TRUE],
              error |-> failure]
        ELSE [ad |-> [ad EXCEPT !.handle = Handle, !.is_connected = TRUE],
              error |-> NoError]

\* SQLDatabaseTool.connect / SnowflakeTool.connect
Connect(ad, outcome) ==
    LET failure == ConnectionError(<<"Failed to connect to ">> \o ad.database_type)
        \* _build_connection_string raises for every type but the three it knows
        creatable == ad.cls = "SnowflakeTool" \/ ad.database_type \in SqlTypes
    IN  IF ad.is_connected /\ ad.handle # NoHandle
        THEN [ad |-> ad, error |-> NoError]
        ELSE IF outcome = "create_fails" \/ ~creatable
        THEN [ad |-> [ad EXCEPT !.is_connected = FALSE], error |-> failure]
        ELSE IF outcome = "probe_fails"
        THEN [ad |-> [ad EXCEPT !.handle = Handle, !.is_connected = FALSE],
              error |-> failure]
        ELSE [ad |-> [ad EXCEPT !.handle = Handle, !.is_connected = TRUE],
              error |-> NoError]

\* SQLDatabaseTool.execute_query / SnowflakeTool.execute_query; asked is what the
\* backend was given to run: the text, or nothing when the connect failed
ExecuteQuery(ad, text, co, qo) ==
    LET c == IF ~ad.is_connected \/ ad.handle = NoHandle
             THEN Connect(ad, co) ELSE [ad |-> ad, error |-> NoError]
        rows == BackendRows(qo.n)
    IN  IF c.error # NoError THEN [ad |-> c.ad, error |-> c.error, asked |-> <<>>]
        ELSE IF ~qo.ok
        THEN [ad |-> c.ad, error |-> QueryError(<<"Query execution failed: backend">>),
              asked |-> <<text>>]
        ELSE [ad |-> c.ad, error |-> NoError, asked |-> <<text>>, rows |-> rows,
              columns |-> IF ad.cls = "SnowflakeTool" \/ rows # <<>>
                          THEN <<"id">> ELSE <<>>]

\* the lines of a rendering: one line per row, the values in column order
RowLines(rows, columns) ==
    [i \in DOMAIN rows |-> [j \in DOMAIN columns |-> rows[i][columns[j]]]]

\* BaseDatabaseTool._format_results
FormatResults(rows, columns, format) ==
    IF format = "json" THEN rows
    ELSE IF format = "csv"
    THEN IF rows = <<>> THEN <<>> ELSE <<columns>> \o RowLines(rows, columns)
    ELSE IF format = "table"
    THEN IF rows = <<>> THEN <<"No results found.">>
         ELSE <<<<"+-+">>, columns, <<"+-+">>>> \o RowLines(rows, columns) \o <<<<"+-+">>>>
    ELSE rows

\* a mutant of execute: the text is passed to execute_query as it came, before
\* it is validated
BaseExecuteQueryFirst(ad, text, limit, format, co, qo) ==
    LET c == IF ~ad.is_connected THEN Connect(ad, co) ELSE [ad |-> ad, error |-> NoError]
        e == ExecuteQuery(c.ad, text, co, qo)
        v == ValidateQuery(text)
        wrap(err) == QueryError(<<"Query execution failed: ">> \o err.message)
    IN  IF c.error # NoError THEN [ad |-> c.ad, error |-> wrap(c.error), sent |-> <<>>]
        ELSE IF e.error # NoError
        THEN [ad |-> e.ad, error |-> wrap(e.error), sent |-> e.asked]
        ELSE IF v # NoError THEN [ad |-> e.ad, error |-> wrap(v), sent |-> e.asked]
        ELSE [ad |-> e.ad, error |-> NoError, sent |-> e.asked,
              result |-> [query |-> ApplyLimit(text, limit),
                          row_count |-> Len(e.rows),
                          columns |-> e.columns,
                          results |-> FormatResults(e.rows, e.columns, format),
                          metadata |-> [database_type |-> ad.name,
                                        limit_applied |-> limit,
                                        format |-> format]]]

\* BaseDatabaseTool.execute / SnowflakeTool.execute: every failure is re-raised as
\* DatabaseQueryError("Query execution failed: ...").  The Result is given without
\* execution_time_seconds, a clock reading; sent is what execute_query passed to
\* the backend during the call.
BaseExecute(ad, text, limit, format, co, qo) ==
    LET c == IF ~ad.is_connected THEN Connect(ad, co) ELSE [ad |-> ad, error |-> NoError]
        v == ValidateQuery(text)
        limited_query == IF ad.cls = "SnowflakeTool"
                         THEN SnowflakeApplyLimit(text, limit)
                         ELSE ApplyLimit(text, limit)
        e == ExecuteQuery(c.ad, limited_query, co, qo)
        wrap(err) == QueryError(<<"Query execution failed: ">> \o err.message)
    IN  IF c.error # NoError THEN [ad |-> c.ad, error |-> wrap(c.error), sent |-> <<>>]
        ELSE IF v # NoError THEN [ad |-> c.ad, error |-> wrap(v), sent |-> <<>>]
        ELSE IF e.error # NoError
        THEN [ad |-> e.ad, error |-> wrap(e.error), sent |-> e.asked]
        ELSE [ad |-> e.ad, error |-> NoError, sent |-> e.asked,
              result |-> [query |-> limited_query,
                          row_count |-> Len(e.rows),
                          columns |-> e.columns,
                          results |-> FormatResults(e.rows, e.columns, format),
                          metadata |-> IF ad.cls = "SnowflakeTool"
                                       THEN [database_type |-> ad.name,
                                             limit_applied |-> limit,
                                             format |-> format,
                                             warehouse |-> "None",
                                             cached_result |-> TRUE]
                                       ELSE [database_type |-> ad.name,
                                             limit_applied |-> limit,
                                             format |-> format]]]

\* a mutant of DatabaseManagerTool.execute: the adapter's error is let through
ManagerExecuteUnwrapped(mgr, connection_name, text, limit, format, co, qo) ==
    IF connection_name \notin DOMAIN mgr.connections
    THEN [mgr |-> mgr, sent |-> <<>>,
          error |-> ConnectionError(<<"Unknown connection: ", connection_name>>)]
    ELSE LET r == BaseExecute(mgr.connections[connection_name], text, limit, format,
                              co, qo)
         IN  [mgr |-> [mgr EXCEPT !.connections[connection_name] = r.ad],
              error |-> r.error, sent |-> r.sent,
              result |-> [connection_name |-> connection_name]]

\* DatabaseManagerTool.execute: the dispatcher after the call, and the Result or
\* the error raised
ManagerExecute(mgr, connection_name, text, limit, format, co, qo) ==
    IF connection_name \notin DOMAIN mgr.connections
    THEN [mgr |-> mgr, sent |-> <<>>,
          error |-> ConnectionError(<<"Unknown connection: ", connection_name>>)]
    ELSE LET db_tool == mgr.connections[connection_name]
             r == BaseExecute(db_tool, text, limit, format, co, qo)
             mgr2 == [mgr EXCEPT !.connections[connection_name] = r.ad]
         IN  IF r.error # NoError
             THEN [mgr |-> mgr2, sent |-> r.sent,
                   error |-> QueryError(<<"Query failed on ", connection_name, ": ">>
                                        \o r.error.message)]
             ELSE [mgr |-> mgr2, error |-> NoError, sent |-> r.sent,
                   result |-> [query |-> r.result.query,
                               row_count |-> r.result.row_count,
                               columns |-> r.result.columns,
                               results |-> r.result.results,
                               metadata |-> r.result.metadata,
                               connection_name |-> connection_name,
                               connection_type |-> db_tool.name]]

\* what the backend does in one get_schema_info: the connect outcome, and whether
\* the introspection queries work
IntrospectOutcomes == {[co |-> c, ok |-> o] : c \in FewConnectOutcomes, o \in BOOLEAN}

\* a mutant of get_schema_info: the backend is asked without the connect
GetSchemaInfoNoConnect(ad, o) ==
    IF ~o.ok
    THEN [ad |-> ad, error |-> QueryError(<<"Failed to retrieve schema info: backend">>)]
    ELSE [ad |-> ad, error |-> NoError,
          schema_info |-> [database_type |-> ad.database_type]]

\* SQLDatabaseTool.get_schema_info / SnowflakeTool.get_schema_info; of the schema
\* only database_type is kept
GetSchemaInfo(ad, o) ==
    LET c == IF ~ad.is_connected \/ ad.handle = NoHandle
             THEN Connect(ad, o.co) ELSE [ad |-> ad, error |-> NoError]
    IN  IF c.error # NoError THEN [ad |-> c.ad, error |-> c.error]
        ELSE IF ~o.ok
        THEN [ad |-> c.ad,
              error |-> QueryError(<<"Failed to retrieve schema info: backend">>)]
        ELSE [ad |-> c.ad, error |-> NoError,
              schema_info |-> [database_type |-> ad.database_type]]

\* DatabaseManagerTool.get_connection_info() with no name: every registered
\* adapter is introspected, a failure is reported in its entry
GetConnectionInfo(mgr, outcomes) ==
    LET got == [n \in DOMAIN mgr.connections |->
                   GetSchemaInfo(mgr.connections[n], outcomes[n])]
    IN  [mgr |-> [mgr EXCEPT !.connections = [n \in DOMAIN got |-> got[n].ad]],
         info |-> [connections |->
                     [n \in DOMAIN got |->
                         IF got[n].error = NoError
                         THEN [connection_type |-> mgr.connections[n].name,
                               schema_info |-> got[n].schema_info]
                         ELSE [connection_type |-> mgr.connections[n].name,
                               error |-> got[n].error.message]]]]

\* SQLDatabaseTool.get_table_info / SnowflakeTool.get_table_info; of the table
\* only its name is kept
GetTableInfo(ad, table_name, o) ==
    LET c == IF ~ad.is_connected \/ ad.handle = NoHandle
             THEN Connect(ad, o.co) ELSE [ad |-> ad, error |-> NoError]
    IN  IF c.error # NoError THEN [ad |-> c.ad, error |-> c.error]
        ELSE IF ~o.ok
        THEN [ad |-> c.ad, error |-> QueryError(<<"Failed to get table info: backend">>)]
        ELSE [ad |-> c.ad, error |-> NoError, table_info |-> [table_name |-> table_name]]

\* DatabaseManagerTool.get_table_info
ManagerGetTableInfo(mgr, connection_name, table_name, o) ==
    IF connection_name \notin DOMAIN mgr.connections
    THEN [mgr |-> mgr,
          error |-> ConnectionError(<<"Unknown connection: ", connection_name>>)]
    ELSE LET db_tool == mgr.connections[connection_name]
             r == GetTableInfo(db_tool, table_name, o)
             mgr2 == [mgr EXCEPT !.connections[connection_name] = r.ad]
         IN  IF r.error # NoError THEN [mgr |-> mgr2, error |-> r.error]
             ELSE [mgr |-> mgr2, error |-> NoError,
                   result |-> [table_name |-> r.table_info.table_name,
                               connection_name |-> connection_name,
                               connection_type |-> db_tool.name]]

\* DatabaseManagerTool.get_connection_info(connection_name)
ManagerGetConnectionInfo(mgr, connection_name, o) ==
    IF connection_name \notin DOMAIN mgr.connections
    THEN [mgr |-> mgr,
          error |-> ConnectionError(<<"Unknown connection: ", connection_name>>)]
    ELSE LET db_tool == mgr.connections[connection_name]
             r == GetSchemaInfo(db_tool, o)
             mgr2 == [mgr EXCEPT !.connections[connection_name] = r.ad]
         IN  IF r.error # NoError THEN [mgr |-> mgr2, error |-> r.error]
             ELSE [mgr |-> mgr2, error |-> NoError,
                   result |-> [connection_name |-> connection_name,
                               connection_type |-> db_tool.name,
                               schema_info |-> r.schema_info]]

\* what the driver does in one disconnect(): the handle is released, or the
\* release raises
DisconnectOutcomes == {"ok", "fails"}

\* SQLDatabaseTool.disconnect / SnowflakeTool.disconnect: a handle, when there is
\* one, is released and forgotten; the flag is cleared
Disconnect(ad, outcome) ==
    IF ad.handle # NoHandle
    THEN IF outcome = "fails"
         THEN [ad |-> ad,
               error |-> [raised |-> "Exception", message |-> <<"release failed">>]]
         ELSE [ad |-> [ad EXCEPT !.handle = NoHandle, !.is_connected = FALSE],
               error |-> NoError]
    ELSE [ad |-> [ad EXCEPT !.is_connected = FALSE], error |-> NoError]

\* what the backend does in one test_connection: in connect, in the schema probe
\* and in disconnect
TestOutcomes ==
    {[co |-> c, ok |-> o, do |-> d] :
        c \in FewConnectOutcomes, o \in BOOLEAN, d \in DisconnectOutcomes}

\* the dict test_connection returns from its except clause
TestFailed(error) ==
    [status |-> "error", message |-> <<"Connection failed: ">> \o error.message]

\* BaseDatabaseTool.test_connection: connect, get_schema_info, disconnect; the
\* first of them that raises ends the test
BaseTestConnection(ad, o) ==
    LET c == Connect(ad, o.co)
    IN  IF c.error # NoError THEN [ad |-> c.ad, result |-> TestFailed(c.error)]
        ELSE LET s == GetSchemaInfo(c.ad, o)
             IN  IF s.error # NoError THEN [ad |-> s.ad, result |-> TestFailed(s.error)]
                 ELSE LET d == Disconnect(s.ad, o.do)
                      IN  IF d.error # NoError
                          THEN [ad |-> d.ad, result |-> TestFailed(d.error)]
                          ELSE [ad |-> d.ad,
                                result |-> [status |-> "success",
                                            message |-> <<"Connection successful">>,
                                            schema_info |-> s.schema_info]]

\* DatabaseManagerTool.test_connection
ManagerTestConnection(mgr, connection_name, o) ==
    IF connection_name \notin DOMAIN mgr.connections
    THEN [mgr |-> mgr,
          result |-> [connection_name |-> connection_name, status |-> "error",
                      message |-> <<"Unknown connection: ", connection_name>>]]
    ELSE LET db_tool == mgr.connections[connection_name]
             r == BaseTestConnection(db_tool, o)
         IN  [mgr |-> [mgr EXCEPT !.connections[connection_name] = r.ad],
              result |-> [k \in DOMAIN r.result \cup {"connection_name", "connection_type"} |->
                            IF k = "connection_name" THEN connection_name
                            ELSE IF k = "connection_type" THEN db_tool.name
                            ELSE r.result[k]]]

\* a mutant of test_all_connections: the entries that report an error are left out
ManagerTestAllConnectionsDropErrors(mgr, outcomes) ==
    LET t == [n \in DOMAIN mgr.connections |-> ManagerTestConnection(mgr, n, outcomes[n])]
        good == {n \in DOMAIN mgr.connections : t[n].result.status = "success"}
    IN  [mgr |-> [mgr EXCEPT !.connections =
                     [n \in DOMAIN mgr.connections |-> t[n].mgr.connections[n]]],
         result |-> [connection_tests |-> [n \in good |-> t[n].result]]]

\* DatabaseManagerTool.test_all_connections: test_connection of every registered
\* name; the adapters are tested one after the other, each on its own
ManagerTestAllConnections(mgr, outcomes) ==
    LET t == [n \in DOMAIN mgr.connections |-> ManagerTestConnection(mgr, n, outcomes[n])]
    IN  [mgr |-> [mgr EXCEPT !.connections =
                     [n \in DOMAIN mgr.connections |-> t[n].mgr.connections[n]]],
         result |-> [connection_tests |-> [n \in DOMAIN mgr.connections |-> t[n].result]]]

\* a mutant of disconnect_all: one disconnect that raises ends the loop with
\* nothing released
ManagerDisconnectAllOrNothing(mgr, outcomes) ==
    IF \E n \in DOMAIN mgr.connections :
          Disconnect(mgr.connections[n], outcomes[n]).error # NoError
    THEN mgr
    ELSE [mgr EXCEPT !.connections =
            [n \in DOMAIN mgr.connections |->
                Disconnect(mgr.connections[n], outcomes[n]).ad]]

\* DatabaseManagerTool.disconnect_all: an adapter whose disconnect raises is logged
\* and the loop goes on
ManagerDisconnectAll(mgr, outcomes) ==
    [mgr EXCEPT !.connections =
        [n \in DOMAIN mgr.connections |-> Disconnect(mgr.connections[n], outcomes[n]).ad]]

-----------------------------------------------------------------------------
(* DatabaseConfigTool: loading, the three mutations, listing; and the      *)
(* DatabaseTool in front of it.                                            *)

pw1 == <<"p","w","1">>
pw2 == <<"p","w","2">>
key1 == <<"k","e","y","1">>
phrase1 == <<"p","p","1">>

\* the connection_config arguments tried
ConfigInputs ==
    { [database_type |-> tSqlite],
      [database_type |-> tMixedCasePostgres, password |-> pw1],
      [private_key |-> key1, private_key_passphrase |-> phrase1] }

\* the DB_<name>_<setting> variables of the environment, grouped by name
EnvChoices ==
    { [n \in {} |-> 0],
      [a |-> [database_type |-> tSqlite], b |-> [password |-> pw1]] }

\* a file that json.load reads
Written(content) == [state |-> "written", content |-> content]

\* the config file at start: missing, or one of two descriptor sets
FileChoices ==
    { [state |-> "absent", content |-> [n \in {} |-> 0]],
      Written([a |-> [password |-> pw2]]),
      Written([b |-> [database_type |-> tMixedCasePostgres, password |-> pw1]]) }

\* DatabaseConfigTool._load_from_environment: groups without database_type are
\* not loaded
LoadFromEnvironment(db_vars) ==
    [n \in {m \in DOMAIN db_vars : "database_type" \in DOMAIN db_vars[m]} |-> db_vars[n]]

\* a mutant of _load_from_file: an entry of the file is blended, field by field,
\* into the entry the environment gave under the same name
LoadFromFileFieldMerge(configs, f) ==
    IF f.state = "written"
    THEN [n \in DOMAIN configs \cup DOMAIN f.content |->
            IF n \in DOMAIN configs /\ n \in DOMAIN f.content
            THEN DictUpdate(configs[n], f.content[n])
            ELSE IF n \in DOMAIN f.content THEN f.content[n] ELSE configs[n]]
    ELSE configs

\* DatabaseConfigTool._load_from_file: database_configs.update(file_configs); a
\* file that cannot be read or parsed is logged and ignored
LoadFromFile(configs, f) ==
    IF f.state = "written" THEN DictUpdate(configs, f.content) ELSE configs

\* DatabaseConfigTool._load_configurations, before the dispatcher is built
LoadConfigurations(db_vars, configured, f) ==
    LET fromEnv == LoadFromEnvironment(db_vars)
    IN  IF configured /\ f.state # "absent" THEN LoadFromFile(fromEnv, f) ELSE fromEnv

\* DatabaseManagerTool.__init__ raising: _initialize_connections catches every
\* Exception of every descriptor, so the constructor does not raise
ManagerInitRaises(configs, drv) == FALSE

\* DatabaseConfigTool._save_to_file: every failure is logged and swallowed
SaveToFile(f, configured, configs, outcome) ==
    IF ~configured THEN f
    ELSE IF outcome = "open_fails" THEN f
    ELSE IF outcome = "dump_fails" THEN [state |-> "partial", content |-> [n \in {} |-> 0]]
    ELSE Written(configs)

\* the adapters of a dispatcher that are in the connected state
Unreleased(mgr) ==
    {[connection |-> n, is_connected |-> TRUE, handle |-> mgr.connections[n].handle] :
        n \in {m \in DOMAIN mgr.connections : mgr.connections[m].is_connected}}

\* the database_configs argument tried for a DatabaseTool built from descriptors
DirectConfigs ==
    [a |-> [database_type |-> tSqlite],
     b |-> [database_type |-> tMixedCasePostgres, password |-> pw1]]

\* DatabaseTool.__init__
\* the dispatcher DatabaseTool.__init__ stores in self.manager, as far as its
\* callers can tell it from another: None or not, and the names it answers to
Held(mgr) == [exists |-> mgr.exists, connections |-> DOMAIN mgr.connections]

ConfigInit ==
    /\ query = <<>>
    /\ guard = GuardIdle
    /\ drivers = WithoutAsyncpg
    /\ \/ \* DatabaseTool(config_file): a DatabaseConfigTool loads the descriptors
          /\ \E db_vars \in EnvChoices, configured \in BOOLEAN, f \in FileChoices :
                /\ configured \/ f.state = "absent"
                /\ configured \/ db_vars = NoConnections
                /\ LET loaded == LoadConfigurations(db_vars, configured, f)
                   IN  /\ file = [configured |-> configured, state |-> f.state,
                                  content |-> f.content]
                       /\ IF loaded # NoConnections
                          THEN /\ manager = NewManager(loaded, drivers)
                               /\ database_configs = ConfigsAfterBuild(loaded)
                          ELSE /\ manager = NoManager
                               /\ database_configs = loaded
          /\ tool = [config_tool |-> TRUE, manager |-> Held(manager)]
       \/ \* DatabaseTool(database_configs=DirectConfigs): a dispatcher only
          /\ manager = NewManager(DirectConfigs, drivers)
          /\ tool = [config_tool |-> FALSE, manager |-> Held(manager)]
          /\ database_configs = ConfigsAfterBuild(DirectConfigs)
          /\ file = [configured |-> FALSE, state |-> "absent", content |-> NoConnections]
    /\ discarded = {}
    /\ last = [op |-> "none"]
    /\ fo = [pc |-> "idle"]
    /\ tasks = NoTasks

\* the file system answers tried: the write works, or fails after the file is opened
FewSaveOutcomes == {"ok", "dump_fails"}

\* the persisted file after _save_to_file
Saved(configs, outcome) ==
    LET f == SaveToFile([state |-> file.state, content |-> file.content],
                        file.configured, configs, outcome)
    IN  [configured |-> file.configured, state |-> f.state, content |-> f.content]

\* a mutant of _add_connection's checks: an existing name is not refused
AddPrecheckNoExistsTest(name, config, configs) ==
    IF "database_type" \notin DOMAIN config THEN "missing_field" ELSE ""

\* DatabaseConfigTool._add_connection, the checks before anything is changed:
\* the reason of the error returned, or "" when the call goes on
AddPrecheck(name, config, configs) ==
    IF name \in DOMAIN configs THEN "exists"
    ELSE IF "database_type" \notin DOMAIN config THEN "missing_field"
    ELSE ""

\* _remove_connection and _update_connection, the check before anything is changed
KnownPrecheck(name, configs) ==
    IF name \notin DOMAIN configs THEN "not_found" ELSE ""

\* what a mutation reports: the action, its arguments, and the dict returned
Outcome(op, name, config, status, why, built) ==
    [op |-> op, name |-> name, typed |-> "database_type" \in DOMAIN config,
     status |-> status, why |-> why, built |-> built]

\* the adapter of the named descriptor is among those a dispatcher built
Built(name, configs, drv) == name \in DOMAIN InitializeConnections(configs, drv)

\* DatabaseConfigTool._add_connection
AddConnection(name, config) ==
    /\ tool.config_tool
    /\ LET why == AddPrecheck(name, config, database_configs)
           added == DictSet(database_configs, name, config)
       IN  IF why # ""
           THEN /\ last' = Outcome("add_connection", name, config, "error", why, FALSE)
                /\ UNCHANGED <<database_configs, manager, file, discarded>>
           ELSE IF ManagerInitRaises(added, drivers)
           THEN \* rollback: del self.database_configs[name]
                /\ database_configs' = DictDel(ConfigsAfterBuild(added), name)
                /\ last' = Outcome("add_connection", name, config, "error", "rebuild", FALSE)
                /\ UNCHANGED <<manager, file, discarded>>
           ELSE /\ database_configs' = ConfigsAfterBuild(added)
                /\ manager' = NewManager(added, drivers)
                /\ discarded' = discarded \cup Unreleased(manager)
                /\ \E saveOutcome \in FewSaveOutcomes :
                      file' = Saved(database_configs', saveOutcome)
                /\ last' = Outcome("add_connection", name, config, "success", "",
                                   Built(name, added, drivers))
    /\ UNCHANGED <<query, guard, drivers, tasks, tool, fo>>

\* DatabaseConfigTool._remove_connection
RemoveConnection(name) ==
    /\ tool.config_tool
    /\ LET why == KnownPrecheck(name, database_configs)
           rest == DictDel(database_configs, name)
           none == [n \in {} |-> 0]
       IN  IF why # ""
           THEN /\ last' = Outcome("remove_connection", name, none, "error", why, FALSE)
                /\ UNCHANGED <<database_configs, manager, file, discarded>>
           ELSE /\ IF rest # none
                   THEN IF ManagerInitRaises(rest, drivers)
                        THEN \* logged; the old dispatcher stays
                             /\ database_configs' = ConfigsAfterBuild(rest)
                             /\ UNCHANGED <<manager, discarded>>
                        ELSE /\ database_configs' = ConfigsAfterBuild(rest)
                             /\ manager' = NewManager(rest, drivers)
                             /\ discarded' = discarded \cup Unreleased(manager)
                   ELSE /\ database_configs' = rest
                        /\ manager' = NoManager
                        /\ discarded' = discarded \cup Unreleased(manager)
                /\ \E saveOutcome \in FewSaveOutcomes :
                      file' = Saved(database_configs', saveOutcome)
                /\ last' = Outcome("remove_connection", name, none, "success", "", FALSE)
    /\ UNCHANGED <<query, guard, drivers, tasks, tool, fo>>

\* DatabaseConfigTool._update_connection
UpdateConnection(name, config) ==
    /\ tool.config_tool
    /\ LET why == KnownPrecheck(name, database_configs)
           old_config == database_configs[name]
           updated == DictSet(database_configs, name, DictUpdate(old_config, config))
       IN  IF why # ""
           THEN /\ last' = Outcome("update_connection", name, config, "error", why, FALSE)
                /\ UNCHANGED <<database_configs, manager, file, discarded>>
           ELSE IF ManagerInitRaises(updated, drivers)
           THEN \* rollback: self.database_configs[name] = old_config
                /\ database_configs' = DictSet(ConfigsAfterBuild(updated), name, old_config)
                /\ last' = Outcome("update_connection", name, config, "error", "rebuild", FALSE)
                /\ UNCHANGED <<manager, file, discarded>>
           ELSE /\ database_configs' = ConfigsAfterBuild(updated)
                /\ manager' = NewManager(updated, drivers)
                /\ discarded' = discarded \cup Unreleased(manager)
                /\ \E saveOutcome \in FewSaveOutcomes :
                      file' = Saved(database_configs', saveOutcome)
                /\ last' = Outcome("update_connection", name, config, "success", "",
                                   Built(name, updated, drivers))
    /\ UNCHANGED <<query, guard, drivers, tasks, tool, fo>>

hidden == <<"***hidden***">>

\* the keys _list_connections redacts
SensitiveKeys == {"password", "private_key", "private_key_passphrase"}

\* DatabaseConfigTool._list_connections
ListOutput(configs) ==
    LET safe(config) ==
            [k \in DOMAIN config |->
                IF k \in SensitiveKeys THEN hidden ELSE config[k]]
        connections == [n \in DOMAIN configs |-> safe(configs[n])]
    IN  [total_connections |-> Cardinality(DOMAIN connections),
         connections |-> connections]

\* DatabaseTool._list_connections: the config tool's listing when there is a
\* config tool, else the dispatcher's get_connection_info(), else an error payload
ListConnections ==
    /\ IF tool.config_tool
       THEN /\ last' = [op |-> "list_connections",
                        output |-> ListOutput(database_configs)]
            /\ UNCHANGED manager
       ELSE IF manager.exists
       THEN \E outcomes \in [DOMAIN manager.connections -> IntrospectOutcomes] :
               LET r == GetConnectionInfo(manager, outcomes)
               IN  /\ manager' = r.mgr
                   /\ last' = [op |-> "list_connections", output |-> r.info]
       ELSE /\ last' = [op |-> "list_connections",
                        output |-> [status |-> "error",
                                    message |-> "No database configurations available"]]
            /\ UNCHANGED manager
    /\ UNCHANGED <<query, guard, database_configs, file, drivers, tasks, tool, discarded, fo>>

tTable == <<"t">>
tSelectX == <<"S","E","L","E","C","T"," ","x">>
tDropX == <<"d","r","o","p"," ","x">>

\* the default row limit of execute
DefaultLimit == 100

\* the backend answer tried while descriptors are being changed: one row
FewQueryOutcomes == {[ok |-> TRUE, n |-> 1]}

\* a query through the live dispatcher: DatabaseManagerTool.execute
Query(name, text, co, qo) ==
    /\ manager.exists
    /\ LET r == ManagerExecute(manager, name, text, DefaultLimit, "table", co, qo)
       IN  /\ manager' = r.mgr
           /\ last' = [op |-> "query", raised |-> r.error.raised]
    /\ UNCHANGED <<query, guard, database_configs, file, drivers, tasks, tool, discarded, fo>>

ConfigNext ==
    \/ \E name \in Names, config \in ConfigInputs : AddConnection(name, config)
    \/ \E name \in Names : RemoveConnection(name)
    \/ \E name \in Names, config \in ConfigInputs : UpdateConnection(name, config)
    \/ ListConnections
    \/ \E name \in Names, co \in ConnectOutcomes, qo \in FewQueryOutcomes :
          Query(name, tSelectX, co, qo)

SpecConfig == ConfigInit /\ [][ConfigNext]_vars

-----------------------------------------------------------------------------
(* DatabaseManagerTool.execute_cross_database_query over a dispatcher built *)
(* from two descriptors.  fo is the call: where it is in its loop, its      *)
(* locals, and (answers) what self.execute gave back for each spec so far.  *)

\* the descriptors the dispatcher of the fan-out is built from
FanOutConfigs == [a |-> [database_type |-> tSqlite], b |-> [database_type |-> tSnowflake]]

\* the query specs tried: well-formed ones on both connections (with and without
\* format and limit), a text the guard rejects, a connection the dispatcher does
\* not know, and two malformed specs (no connection_name, no query)
FanOutSpecs ==
    { [connection_name |-> "a", query |-> tSelectX],
      [connection_name |-> "b", query |-> tSelectX, format |-> "json", limit |-> 5],
      [connection_name |-> "b", query |-> tSelectX, format |-> "table"],
      [connection_name |-> "a", query |-> tDropX],
      [connection_name |-> "zz", query |-> tSelectX],
      [query |-> tSelectX],
      [connection_name |-> "a"] }

\* the lists of specs tried
QueryLists == UNION {[1..n -> FanOutSpecs] : n \in 0..MaxQueries}

\* f"query_{i+1}_{connection_name}", i the index enumerate() gives
Key(i, connection_name) == <<"query", i + 1, connection_name>>

CombinedKey == <<"combined_results">>

\* a mutant of the tagging: the enumerate() index is used as it is
TagRowsZeroBased(rows, connection_name, i) ==
    [k \in DOMAIN rows |->
        DictSet(DictSet(rows[k], "_source_connection", connection_name),
                "_source_query", i)]

\* the rows of a json result after the tagging loop: each row dict gets the two
\* source fields
TagRows(rows, connection_name, i) ==
    [k \in DOMAIN rows |->
        DictSet(DictSet(rows[k], "_source_connection", connection_name),
                "_source_query", i + 1)]

\* the test that guards the tagging and the extend of combined_data
Contributes(combine_results, format_type) == combine_results /\ format_type = "json"

\* the code after the loop: combined_results is added when combine_results is set
AfterLoop(f) ==
    IF f.i < Len(f.queries) THEN f
    ELSE [f EXCEPT !.pc = "done",
                   !.results = IF f.combine_results
                               THEN DictSet(f.results, CombinedKey,
                                            [total_rows |-> Len(f.combined_data),
                                             data |-> f.combined_data])
                               ELSE f.results]

FanOutInit ==
    /\ query = <<>>
    /\ guard = GuardIdle
    /\ drivers = AllDrivers
    /\ tool = [config_tool |-> FALSE]
    /\ database_configs = ConfigsAfterBuild(FanOutConfigs)
    /\ manager = NewManager(FanOutConfigs, drivers)
    /\ file = [configured |-> FALSE, state |-> "absent", content |-> NoConnections]
    /\ discarded = {}
    /\ last = [op |-> "none"]
    /\ fo = [pc |-> "idle"]
    /\ tasks = NoTasks

\* the call, up to the first iteration of its loop
FanOutStart(queries, combine_results) ==
    /\ fo.pc = "idle"
    /\ fo' = AfterLoop([pc |-> "loop", queries |-> queries,
                        combine_results |-> combine_results, i |-> 0,
                        results |-> <<>>, combined_data |-> <<>>, answers |-> <<>>])
    /\ UNCHANGED <<query, guard, database_configs, manager, file, drivers, tasks, tool, discarded, last>>

\* the body of the try of one iteration, r being what self.execute did: the
\* locals of the call after the result, or the error entry, is recorded
Recorded(f, connection_name, format_type, r) ==
    LET i == f.i
        ok == r.error = NoError
        tags == ok /\ Contributes(f.combine_results, format_type)
        query_results ==
            IF tags THEN TagRows(r.result.results, connection_name, i) ELSE <<>>
        \* the rows tagged are the row dicts of the result just stored
        entry ==
            IF ~ok THEN [status |-> "error", error |-> r.error.message]
            ELSE IF tags THEN [r.result EXCEPT !.results = query_results]
            ELSE r.result
        answer ==
            IF ok THEN [ok |-> TRUE, result |-> r.result]
            ELSE [ok |-> FALSE, error |-> r.error]
    IN  [f EXCEPT !.i = i + 1,
                  !.results = DictSet(f.results, Key(i, connection_name), entry),
                  !.combined_data = f.combined_data \o query_results,
                  !.answers = Append(f.answers, answer)]

\* one iteration of the loop, and the code after the loop when it was the last
FanOutStep(co, qo) ==
    /\ fo.pc = "loop"
    /\ LET query_spec == fo.queries[fo.i + 1]
       IN  IF ~({"connection_name", "query"} \subseteq DOMAIN query_spec)
           THEN \* query_spec['connection_name'] / ['query'] are read before the
                \* try: the KeyError leaves the call
                /\ fo' = [pc |-> "raised", raised |-> "KeyError",
                          queries |-> fo.queries,
                          combine_results |-> fo.combine_results, i |-> fo.i,
                          answers |-> fo.answers]
                /\ UNCHANGED manager
           ELSE LET connection_name == query_spec["connection_name"]
                    limit == Get(query_spec, "limit", DefaultLimit)
                    format_type == Get(query_spec, "format", "json")
                    r == ManagerExecute(manager, connection_name, query_spec["query"],
                                        limit, format_type, co, qo)
                IN  /\ manager' = r.mgr
                    /\ fo' = AfterLoop(Recorded(fo, connection_name, format_type, r))
    /\ UNCHANGED <<query, guard, database_configs, file, drivers, tasks, tool, discarded, last>>

FanOutNext ==
    \/ \E queries \in QueryLists, combine_results \in BOOLEAN :
          FanOutStart(queries, combine_results)
    \/ \E co \in FewConnectOutcomes, qo \in QueryOutcomes : FanOutStep(co, qo)

SpecFanOut == FanOutInit /\ [][FanOutNext]_vars

-----------------------------------------------------------------------------
(* The dispatcher and its adapters, operation by operation: connect and    *)
(* disconnect of one adapter, execute, test_connection,                    *)
(* test_all_connections and disconnect_all, on the dispatcher of two       *)
(* adapters the fan-out is run on.                                         *)

\* the connection names asked for: the two registered ones and an unknown one
AskedNames == Names \cup {"zz"}

\* adapter.connect() on a registered adapter
AdapterConnect(name, co) ==
    /\ name \in DOMAIN manager.connections
    /\ LET r == Connect(manager.connections[name], co)
       IN  /\ manager' = [manager EXCEPT !.connections[name] = r.ad]
           /\ last' = [op |-> "connect", name |-> name, error |-> r.error,
                       driver |-> co]
    /\ UNCHANGED <<query, guard, database_configs, file, drivers, tasks, tool, discarded, fo>>

\* adapter.disconnect() on a registered adapter
AdapterDisconnect(name, do) ==
    /\ name \in DOMAIN manager.connections
    /\ LET r == Disconnect(manager.connections[name], do)
       IN  /\ manager' = [manager EXCEPT !.connections[name] = r.ad]
           /\ last' = [op |-> "disconnect", name |-> name, error |-> r.error,
                       driver |-> do]
    /\ UNCHANGED <<query, guard, database_configs, file, drivers, tasks, tool, discarded, fo>>

\* what an execute left behind: the arguments, and the error raised or the Result
Executed(name, text, r) ==
    IF r.error # NoError
    THEN [op |-> "execute", name |-> name, text |-> text, error |-> r.error,
          sent |-> r.sent]
    ELSE [op |-> "execute", name |-> name, text |-> text, error |-> r.error,
          sent |-> r.sent, result |-> r.result]

\* DatabaseManagerTool.execute
Execute(name, text, co, qo) ==
    /\ LET r == ManagerExecute(manager, name, text, DefaultLimit, "table", co, qo)
       IN  /\ manager' = r.mgr
           /\ last' = Executed(name, text, r)
    /\ UNCHANGED <<query, guard, database_configs, file, drivers, tasks, tool, discarded, fo>>

\* DatabaseManagerTool.test_connection
TestConnection(name, o) ==
    /\ LET r == ManagerTestConnection(manager, name, o)
       IN  /\ manager' = r.mgr
           /\ last' = [op |-> "test_connection", name |-> name, result |-> r.result,
                      driver |-> o]
    /\ UNCHANGED <<query, guard, database_configs, file, drivers, tasks, tool, discarded, fo>>

\* DatabaseManagerTool.test_all_connections
TestAllConnections(outcomes) ==
    /\ LET r == ManagerTestAllConnections(manager, outcomes)
       IN  /\ manager' = r.mgr
           /\ last' = [op |-> "test_all_connections", result |-> r.result,
                       driver |-> outcomes]
    /\ UNCHANGED <<query, guard, database_configs, file, drivers, tasks, tool, discarded, fo>>

\* DatabaseManagerTool.disconnect_all: it returns None
DisconnectAll(outcomes) ==
    /\ manager' = ManagerDisconnectAll(manager, outcomes)
    /\ last' = [op |-> "disconnect_all", error |-> NoError, driver |-> outcomes]
    /\ UNCHANGED <<query, guard, database_configs, file, drivers, tasks, tool, discarded, fo>>

\* DatabaseManagerTool.get_connection_info(connection_name)
GetConnectionInfoOf(name, o) ==
    /\ LET r == ManagerGetConnectionInfo(manager, name, o)
       IN  /\ manager' = r.mgr
           /\ last' = [op |-> "get_connection_info", name |-> name, error |-> r.error,
                       driver |-> o]
    /\ UNCHANGED <<query, guard, database_configs, file, drivers, tasks, tool, discarded, fo>>

\* DatabaseManagerTool.get_table_info
GetTableInfoOf(name, o) ==
    /\ LET r == ManagerGetTableInfo(manager, name, tTable, o)
       IN  /\ manager' = r.mgr
           /\ last' = [op |-> "get_table_info", name |-> name, error |-> r.error,
                       driver |-> o]
    /\ UNCHANGED <<query, guard, database_configs, file, drivers, tasks, tool, discarded, fo>>

DispatcherNext ==
    \/ \E name \in AskedNames, o \in IntrospectOutcomes : GetConnectionInfoOf(name, o)
    \/ \E name \in AskedNames, o \in IntrospectOutcomes : GetTableInfoOf(name, o)
    \/ \E name \in Names, co \in ConnectOutcomes : AdapterConnect(name, co)
    \/ \E name \in Names, do \in DisconnectOutcomes : AdapterDisconnect(name, do)
    \/ \E name \in AskedNames, text \in {tSelectX, tDropX},
          co \in FewConnectOutcomes, qo \in QueryOutcomes : Execute(name, text, co, qo)
    \/ \E name \in AskedNames, o \in TestOutcomes : TestConnection(name, o)
    \/ \E outcomes \in [DOMAIN manager.connections -> TestOutcomes] :
          TestAllConnections(outcomes)
    \/ \E outcomes \in [DOMAIN manager.connections -> DisconnectOutcomes] :
          DisconnectAll(outcomes)

SpecDispatcher == FanOutInit /\ [][DispatcherNext]_vars

-----------------------------------------------------------------------------
(* DatabaseConfigTool.__init__ alone: the environment and the config file  *)
(* are inputs, the descriptor store and the dispatcher are the result.     *)

\* what one DB_<name>_* group of the environment may hold
EnvGroups ==
    { [database_type |-> tSqlite, password |-> pw1],
      [database_type |-> tSnowflake],
      [password |-> pw1] }

\* what the config file may hold under one name
FileEntries ==
    { [database_type |-> tMixedCasePostgres],
      [database_type |-> tMysql, password |-> pw2],
      [password |-> pw2] }

\* the dicts that give some of the Names a value of the set
DictsOver(values) == UNION {[S -> values] : S \in SUBSET Names}

\* the config file found at start: missing, not JSON, or a descriptor set
LoadFiles ==
    { [state |-> "absent", content |-> NoConnections],
      [state |-> "partial", content |-> NoConnections] }
    \cup {Written(c) : c \in DictsOver(FileEntries)}

\* before DatabaseConfigTool(config_file) runs: self.database_configs = {} and
\* self.manager = None
LoadInit ==
    /\ query = <<>>
    /\ guard = GuardIdle
    /\ drivers \in {AllDrivers, WithoutAsyncpg}
    /\ tool = [config_tool |-> TRUE]
    /\ database_configs = NoConnections
    /\ manager = NoManager
    /\ \E configured \in BOOLEAN, f \in LoadFiles :
          /\ configured \/ f.state = "absent"
          /\ file = [configured |-> configured, state |-> f.state, content |-> f.content]
    /\ \E db_vars \in DictsOver(EnvGroups) : last = [op |-> "environ", db_vars |-> db_vars]
    /\ discarded = {}
    /\ fo = [pc |-> "idle"]
    /\ tasks = NoTasks

\* DatabaseConfigTool.__init__: _load_configurations
Load ==
    /\ last.op = "environ"
    /\ LET loaded == LoadConfigurations(last.db_vars, file.configured,
                                        [state |-> file.state, content |-> file.content])
       IN  IF loaded # NoConnections
           THEN /\ manager' = NewManager(loaded, drivers)
                /\ database_configs' = ConfigsAfterBuild(loaded)
           ELSE /\ manager' = NoManager
                /\ database_configs' = loaded
    /\ last' = [op |-> "load", db_vars |-> last.db_vars]
    /\ UNCHANGED <<query, guard, file, drivers, tasks, tool, discarded, fo>>

LoadNext == Load

SpecLoad == LoadInit /\ [][LoadNext]_vars

-----------------------------------------------------------------------------
(* DatabaseTool.execute: the public tool.  A request is an action name and  *)
(* the keyword arguments passed with it.                                    *)

NoKwargs == [k \in {} |-> 0]

Request(action, kwargs) == [action |-> action, kwargs |-> kwargs]

\* the requests tried: every routed action with and without the arguments it
\* needs, the three descriptor mutations, and an action no tool knows
ToolRequests ==
    { Request("query", [connection_name |-> "a", query |-> tSelectX]),
      Request("query", [connection_name |-> "a", query |-> tDropX]),
      Request("query", [connection_name |-> "zz", query |-> tSelectX]),
      Request("query", [connection_name |-> "a"]),
      Request("list_connections", NoKwargs),
      Request("test_connections", NoKwargs),
      Request("get_schema_info", NoKwargs),
      Request("get_schema_info", [connection_name |-> "a"]),
      Request("get_schema_info", [connection_name |-> "zz"]),
      Request("get_table_info", [connection_name |-> "a", table_name |-> tTable]),
      Request("get_table_info", [connection_name |-> "a"]),
      Request("cross_database_query",
              [queries |-> <<[connection_name |-> "a", query |-> tSelectX]>>]),
      Request("cross_database_query",
              [queries |-> <<[connection_name |-> "a", query |-> tSelectX],
                             [connection_name |-> "zz", query |-> tSelectX]>>,
               combine_results |-> TRUE]),
      Request("cross_database_query", [queries |-> <<[query |-> tSelectX]>>]),
      Request("cross_database_query", NoKwargs),
      Request("add_connection",
              [connection_name |-> "b", connection_config |-> [database_type |-> tSqlite]]),
      Request("remove_connection", [connection_name |-> "a"]),
      Request("update_connection",
              [connection_name |-> "a", connection_config |-> [database_type |-> tSqlite]]),
      Request("frobnicate", NoKwargs) }

\* what the backend of one connection does during a request: its answer to a
\* connect, to a query, to an introspection query and to a disconnect
Fine == [co |-> "ok", qo |-> [ok |-> TRUE, n |-> 1], ok |-> TRUE, do |-> "ok"]

\* the answers tried for an action: those of the calls the action makes
AnswersFor(action) ==
    IF action \in {"query", "cross_database_query"}
    THEN {[Fine EXCEPT !.co = c, !.qo = q] :
             c \in FewConnectOutcomes, q \in {[ok |-> FALSE, n |-> 0], [ok |-> TRUE, n |-> 1]}}
    ELSE IF action \in {"list_connections", "get_schema_info", "get_table_info"}
    THEN {[Fine EXCEPT !.co = c, !.ok = o] : c \in FewConnectOutcomes, o \in BOOLEAN}
    ELSE IF action = "test_connections"
    THEN {[Fine EXCEPT !.co = c, !.ok = o, !.do = x] :
             c \in FewConnectOutcomes, o \in BOOLEAN, x \in DisconnectOutcomes}
    ELSE {Fine}

\* the answer of the backend of a connection name
AnswerOf(d, connection_name) == IF connection_name \in DOMAIN d THEN d[connection_name] ELSE Fine

\* the answers of the backends of the registered adapters
AnswersOf(d, mgr) == [n \in DOMAIN mgr.connections |-> AnswerOf(d, n)]

\* query_spec['connection_name'] or query_spec['query'] of a spec without it
KeyError(query_spec) ==
    [raised |-> "KeyError",
     message |-> IF "connection_name" \notin DOMAIN query_spec
                 THEN <<"'connection_name'">> ELSE <<"'query'">>]

RECURSIVE CrossDatabaseLoop(_, _, _)
RECURSIVE CrossDatabaseIteration(_, _, _, _, _, _)

\* the rest of one iteration once self.execute has answered r, then the rest of
\* the loop
CrossDatabaseIteration(mgr, f, d, connection_name, format_type, r) ==
    CrossDatabaseLoop(r.mgr, Recorded(f, connection_name, format_type, r), d)

\* the loop of execute_cross_database_query from iteration f.i on, and the code
\* after it
CrossDatabaseLoop(mgr, f, d) ==
    IF f.i >= Len(f.queries)
    THEN [mgr |-> mgr, error |-> NoError, result |-> AfterLoop(f).results]
    ELSE LET query_spec == f.queries[f.i + 1]
         IN  IF ~({"connection_name", "query"} \subseteq DOMAIN query_spec)
             THEN [mgr |-> mgr, error |-> KeyError(query_spec)]
             ELSE CrossDatabaseIteration(mgr, f, d, query_spec["connection_name"],
                     Get(query_spec, "format", "json"),
                     ManagerExecute(mgr, query_spec["connection_name"],
                                    query_spec["query"],
                                    Get(query_spec, "limit", DefaultLimit),
                                    Get(query_spec, "format", "json"),
                                    AnswerOf(d, query_spec["connection_name"]).co,
                                    AnswerOf(d, query_spec["connection_name"]).qo))

\* DatabaseManagerTool.execute_cross_database_query, the whole call
ExecuteCrossDatabaseQuery(mgr, queries, combine_results, d) ==
    CrossDatabaseLoop(mgr, [pc |-> "loop", queries |-> queries,
                            combine_results |-> combine_results, i |-> 0,
                            results |-> <<>>, combined_data |-> <<>>,
                            answers |-> <<>>], d)

\* a call whose keyword arguments do not fit the parameters of the method
TypeError == [raised |-> "TypeError", message |-> <<"missing or unexpected keyword argument">>]

\* the methods behind execute raise this when self.manager is None
NoManagerError ==
    [raised |-> "ValueError",
     message |-> <<"No database manager available. Check configurations.">>]

UnknownAction(action) == [raised |-> "ValueError", message |-> <<"Unknown action: ", action>>]

\* the keyword arguments bind to a method with these required and optional
\* parameters
Binds(kwargs, required, optional) ==
    /\ required \subseteq DOMAIN kwargs
    /\ DOMAIN kwargs \subseteq required \cup optional

Raises(mgr, error) == [mgr |-> mgr, error |-> error]
Returns(mgr, result) == [mgr |-> mgr, error |-> NoError, result |-> result]

\* DatabaseTool._execute_query
ToolExecuteQuery(kwargs, mgr, d) ==
    IF ~({"connection_name", "query"} \subseteq DOMAIN kwargs) THEN Raises(mgr, TypeError)
    ELSE IF ~mgr.exists THEN Raises(mgr, NoManagerError)
    ELSE ManagerExecute(mgr, kwargs["connection_name"], kwargs["query"],
                        Get(kwargs, "limit", DefaultLimit), Get(kwargs, "format", "table"),
                        AnswerOf(d, kwargs["connection_name"]).co,
                        AnswerOf(d, kwargs["connection_name"]).qo)

\* the result of get_connection_info() as a return of the tool
ConnectionInfoReturned(r) == Returns(r.mgr, r.info)

\* DatabaseTool._list_connections
ToolListConnections(mgr, config_tool, configs, d) ==
    IF config_tool THEN Returns(mgr, ListOutput(configs))
    ELSE IF mgr.exists THEN ConnectionInfoReturned(GetConnectionInfo(mgr, AnswersOf(d, mgr)))
    ELSE Returns(mgr, [status |-> "error",
                       message |-> <<"No database configurations available">>])

\* the result of test_all_connections() as a return of the tool
TestsReturned(r) == Returns(r.mgr, r.result)

\* DatabaseTool._test_connections
ToolTestConnections(mgr, d) ==
    IF ~mgr.exists
    THEN Returns(mgr, [status |-> "error",
                       message |-> <<"No database manager available. Check configurations.">>])
    ELSE TestsReturned(ManagerTestAllConnections(mgr, AnswersOf(d, mgr)))

\* DatabaseTool._get_schema_info
ToolGetSchemaInfo(kwargs, mgr, d) ==
    IF ~Binds(kwargs, {}, {"connection_name"}) THEN Raises(mgr, TypeError)
    ELSE IF ~mgr.exists THEN Raises(mgr, NoManagerError)
    ELSE IF "connection_name" \in DOMAIN kwargs
    THEN ManagerGetConnectionInfo(mgr, kwargs["connection_name"],
                                  AnswerOf(d, kwargs["connection_name"]))
    ELSE ConnectionInfoReturned(GetConnectionInfo(mgr, AnswersOf(d, mgr)))

\* DatabaseTool._get_table_info
ToolGetTableInfo(kwargs, mgr, d) ==
    IF ~Binds(kwargs, {"connection_name", "table_name"}, {"schema_name"})
    THEN Raises(mgr, TypeError)
    ELSE IF ~mgr.exists THEN Raises(mgr, NoManagerError)
    ELSE ManagerGetTableInfo(mgr, kwargs["connection_name"], kwargs["table_name"],
                             AnswerOf(d, kwargs["connection_name"]))

\* DatabaseTool._cross_database_query
ToolCrossDatabaseQuery(kwargs, mgr, d) ==
    IF ~Binds(kwargs, {"queries"}, {"combine_results"}) THEN Raises(mgr, TypeError)
    ELSE IF ~mgr.exists THEN Raises(mgr, NoManagerError)
    ELSE ExecuteCrossDatabaseQuery(mgr, kwargs["queries"],
                                   Get(kwargs, "combine_results", FALSE), d)

\* the body of the try of DatabaseTool.execute: what it returns or raises
ToolRoute(action, kwargs, mgr, config_tool, configs, d) ==
    IF action = "query" THEN ToolExecuteQuery(kwargs, mgr, d)
    ELSE IF action = "list_connections" THEN ToolListConnections(mgr, config_tool, configs, d)
    ELSE IF action = "test_connections" THEN ToolTestConnections(mgr, d)
    ELSE IF action = "get_schema_info" THEN ToolGetSchemaInfo(kwargs, mgr, d)
    ELSE IF action = "get_table_info" THEN ToolGetTableInfo(kwargs, mgr, d)
    ELSE IF action = "cross_database_query" THEN ToolCrossDatabaseQuery(kwargs, mgr, d)
    ELSE Raises(mgr, UnknownAction(action))

\* the except of DatabaseTool.execute: the payload returned for an exception
ErrorPayload(action, error) ==
    [status |-> "error", action |-> action, error |-> error.message]

\* DatabaseTool.execute has returned: r is what the body of its try did
ToolReturned(request, r) ==
    /\ manager' = r.mgr
    /\ last' = [op |-> "tool_execute", action |-> request.action,
                kwargs |-> request.kwargs, raised |-> r.error.raised,
                result |-> IF r.error # NoError
                           THEN ErrorPayload(request.action, r.error)
                           ELSE r.result]

\* DatabaseTool.execute
ToolExecute(request, d) ==
    /\ ToolReturned(request, ToolRoute(request.action, request.kwargs, manager,
                                       tool.config_tool, database_configs, d))
    /\ UNCHANGED <<query, guard, database_configs, file, drivers, tasks, tool, discarded, fo>>

ToolNext ==
    \E request \in ToolRequests :
        \E d \in [Names -> AnswersFor(request.action)] : ToolExecute(request, d)

SpecTool == ConfigInit /\ [][ToolNext]_vars

-----------------------------------------------------------------------------
(* Properties of the query guard.                                          *)

\* a character that can be part of an identifier
IsIdentChar(c) ==
    c \in Range(LowerLetters) \cup Range(UpperLetters) \cup Range(Digits) \cup {"_"}

\* the word w occurs in the text at position i, in any case
OccursAt(text, w, i) ==
    /\ i + Len(w) - 1 <= Len(text)
    /\ \A j \in 1..Len(w) : UpperChar(text[i + j - 1]) = w[j]

\* the text holds a forbidden word as a whole token: not inside an identifier
HasForbiddenToken(text) ==
    \E k \in DOMAIN dangerous_patterns : \E i \in DOMAIN text :
        /\ OccursAt(text, dangerous_patterns[k], i)
        /\ (i = 1 \/ ~IsIdentChar(text[i - 1]))
        /\ LET e == i + Len(dangerous_patterns[k])
           IN  e > Len(text) \/ ~IsIdentChar(text[e])

\* the text begins with the word w, in any case, after leading whitespace
BeginsWith(text, w) ==
    \E k \in 0..Len(text) :
        /\ \A j \in 1..k : text[j] \in Whitespace
        /\ (k < Len(text) => text[k + 1] \notin Whitespace)
        /\ OccursAt(text, w, k + 1)

BeginsWithSelectOrWith(text) == BeginsWith(text, kSELECT) \/ BeginsWith(text, kWITH)

\* the text holds LIMIT, in any case
HasLimit(text) == \E i \in DOMAIN text : OccursAt(text, kLIMIT, i)

\* C8 (as claimed): validate fails with QueryError on every text that holds a
\* forbidden word as a whole token, whatever non-identifier character delimits it,
\* and accepts a SELECT/WITH text whose forbidden words are all inside identifiers.
C8_TokenBoundedRejection ==
    guard.op = "validate" =>
        /\ HasForbiddenToken(query) => guard.error.raised = "DatabaseQueryError"
        /\ (BeginsWithSelectOrWith(query) /\ ~HasForbiddenToken(query))
              => guard.error = NoError

\* C9: validate fails with QueryError on every text that does not begin with
\* SELECT or WITH (any case, surrounding whitespace ignored), and succeeds on every
\* text that begins with SELECT or WITH and holds no forbidden token.
C9_SelectOrWithOnly ==
    guard.op = "validate" =>
        /\ ~BeginsWithSelectOrWith(query) => guard.error.raised = "DatabaseQueryError"
        /\ (BeginsWithSelectOrWith(query) /\ ~HasForbiddenToken(query))
              => guard.error = NoError

\* C9 witness: a text with leading whitespace and a lower-case "with" was accepted,
\* although it holds "drop" inside an identifier.
C9_Witness ==
    /\ guard.op = "validate"
    /\ guard.error = NoError
    /\ Len(query) > 0 /\ query[1] = " "
    /\ BeginsWith(query, kWITH)
    /\ \E i \in DOMAIN query : OccursAt(query, dangerous_patterns[1], i)

\* the decimal text of each limit tried, written out
LimitText == (5 :> <<"5">>) @@ (100 :> <<"1","0","0">>)

LimitSuffix(limit) == <<" ","L","I","M","I","T"," ">> \o LimitText[limit]

\* the text without its last character when that is a statement terminator
StripOneTerminator(text) ==
    IF Len(text) > 0 /\ text[Len(text)] = ";"
    THEN SubSeq(text, 1, Len(text) - 1) ELSE text

\* C10 (as claimed): a text holding LIMIT is returned unchanged; any other text is
\* returned with exactly one trailing terminator removed, if one was present, and
\* ' LIMIT <limit>' appended; the Snowflake override behaves the same.
C10_OneTerminatorRemoved ==
    guard.op \in {"apply_limit", "snowflake_apply_limit"} =>
        IF HasLimit(query) THEN guard.out = query
        ELSE guard.out = StripOneTerminator(query) \o LimitSuffix(guard.limit)

\* C10 (amended): a text holding LIMIT is returned unchanged; any other text is
\* returned with all of its trailing terminators removed (and nothing else), and
\* ' LIMIT <limit>' appended; the Snowflake override behaves the same.
C10_AllTerminatorsRemoved ==
    guard.op \in {"apply_limit", "snowflake_apply_limit"} =>
        IF HasLimit(query) THEN guard.out = query
        ELSE \E k \in 0..Len(query) :
                /\ \A j \in (Len(query) - k + 1)..Len(query) : query[j] = ";"
                /\ (k < Len(query) => query[Len(query) - k] # ";")
                /\ guard.out = SubSeq(query, 1, Len(query) - k) \o LimitSuffix(guard.limit)

\* C10 witness: a text without LIMIT that ends with two terminators was rewritten.
C10_Witness ==
    /\ guard.op = "apply_limit"
    /\ ~HasLimit(query)
    /\ Len(query) > 2
    /\ query[Len(query)] = ";" /\ query[Len(query) - 1] = ";"
    /\ guard.out # query

-----------------------------------------------------------------------------
(* Properties of the descriptor store and the live dispatcher.             *)

\* C3 (as claimed): after construction of the config tool and after every
\* add/remove/update, the names registered in the dispatcher are the names of the
\* descriptor store, and the dispatcher is None exactly when the store is empty.
C3_StoreMatchesDispatcher ==
    tool.config_tool =>
        /\ manager.exists <=> DOMAIN database_configs # {}
        /\ DOMAIN manager.connections = DOMAIN database_configs

\* C4 (as claimed): no adapter of a replaced dispatcher is still connected: each
\* was closed before it was discarded.
C4_DiscardedAdaptersClosed ==
    \A d \in discarded : ~d.is_connected /\ d.handle = NoHandle

\* C5 (as claimed): an add or update whose descriptor's adapter cannot be built
\* returns an error and leaves the descriptor store and the dispatcher as they
\* were before the call.
C5_RollbackOnRebuildFailure ==
    [][ ( /\ \/ /\ last'.op = "add_connection"
                /\ last'.name \notin DOMAIN database_configs
                /\ last'.typed
             \/ /\ last'.op = "update_connection"
                /\ last'.name \in DOMAIN database_configs
          /\ ~last'.built )
        => ( /\ last'.status = "error"
             /\ database_configs' = database_configs
             /\ manager' = manager ) ]_vars

\* C6: an add of a name already in the store or of a config without
\* database_type, and a remove or update of a name not in the store, return
\* status error and leave the store, the dispatcher and the file unchanged.
C6_FailedPreconditionChangesNothing ==
    [][ ( \/ /\ last'.op = "add_connection"
             /\ (last'.name \in DOMAIN database_configs \/ ~last'.typed)
          \/ /\ last'.op \in {"remove_connection", "update_connection"}
             /\ last'.name \notin DOMAIN database_configs )
        => ( /\ last'.status = "error"
             /\ database_configs' = database_configs
             /\ manager' = manager
             /\ file' = file ) ]_vars

\* C6 witness: an add of a name that exists was refused while the store holds a
\* descriptor, a dispatcher is live and the file is written.
C6_Witness ==
    /\ last.op = "add_connection"
    /\ last.status = "error"
    /\ last.name \in DOMAIN database_configs
    /\ manager.exists
    /\ file.state = "written"

\* every value held by a sensitive key of a stored descriptor
Secrets(configs) ==
    UNION {{configs[n][k] : k \in DOMAIN configs[n] \cap SensitiveKeys} : n \in DOMAIN configs}

\* every value found in the output of list_connections
ListedValues(output) ==
    UNION {{output.connections[n][k] : k \in DOMAIN output.connections[n]} :
              n \in DOMAIN output.connections}

\* C7 (as claimed): the output of list_connections names every descriptor, counts
\* them in total_connections, shows the placeholder under every password,
\* private_key and private_key_passphrase key, and holds none of the values
\* stored under them.
C7_ListHidesSecrets ==
    last.op = "list_connections" =>
        /\ {"connections", "total_connections"} \subseteq DOMAIN last.output
        /\ DOMAIN last.output.connections = DOMAIN database_configs
        /\ last.output.total_connections = Cardinality(DOMAIN database_configs)
        /\ \A n \in DOMAIN database_configs :
              /\ DOMAIN last.output.connections[n] = DOMAIN database_configs[n]
              /\ \A k \in DOMAIN database_configs[n] \cap SensitiveKeys :
                    last.output.connections[n][k] = <<"***hidden***">>
        /\ ListedValues(last.output) \cap Secrets(database_configs) = {}

\* C7 witness: a listing of a store that holds a password, a private key and a
\* passphrase.
C7_Witness ==
    /\ last.op = "list_connections"
    /\ \E n \in DOMAIN database_configs :
          SensitiveKeys \subseteq DOMAIN database_configs[n]

-----------------------------------------------------------------------------
(* Properties of the fan-out.                                              *)

\* the keys of the result map recorded for position i (1-based)
KeysOf(results, i) == {k \in DOMAIN results : k # CombinedKey /\ k[2] = i}

\* the format a spec asks for: 'json' when it names none
RequestedFormat(query_spec) == Get(query_spec, "format", "json")

\* C1 (as claimed): no spec makes the fan-out leave without its result map, and
\* the map returned has, for every position i, exactly one entry, keyed
\* query_<i>_<connection name>, holding that query's Result or an error entry.
C1_FanOutIsolatesFailures ==
    /\ fo.pc # "raised"
    /\ fo.pc = "done" =>
          \A i \in 1..Len(fo.queries) :
              /\ KeysOf(fo.results, i) = {<<"query", i, fo.queries[i]["connection_name"]>>}
              /\ LET entry == fo.results[<<"query", i, fo.queries[i]["connection_name"]>>]
                 IN  IF fo.answers[i].ok
                     THEN /\ DOMAIN entry = DOMAIN fo.answers[i].result
                          /\ entry.row_count = fo.answers[i].result.row_count
                     ELSE DOMAIN entry = {"status", "error"} /\ entry.status = "error"

\* the rows a sub-query contributes: its rows in their own order, each with the
\* connection name and the 1-based position of the query
Contribution(queries, answers, i) ==
    IF answers[i].ok /\ RequestedFormat(queries[i]) = "json"
    THEN [k \in DOMAIN answers[i].result.results |->
            ("_source_connection" :> queries[i]["connection_name"])
            @@ ("_source_query" :> i)
            @@ answers[i].result.results[k]]
    ELSE <<>>

\* the contributions of the first n sub-queries, in query order
RECURSIVE CombinedUpTo(_, _, _)
CombinedUpTo(queries, answers, n) ==
    IF n = 0 THEN <<>>
    ELSE CombinedUpTo(queries, answers, n - 1) \o Contribution(queries, answers, n)

\* C2: with combine set, combined_results.data is, in query order and then row
\* order, the tagged rows of the sub-queries that succeeded with format json,
\* and nothing else; total_rows is the number of rows in data.
C2_CombinedResults ==
    (fo.pc = "done" /\ fo.combine_results) =>
        /\ CombinedKey \in DOMAIN fo.results
        /\ fo.results[CombinedKey].data =
              CombinedUpTo(fo.queries, fo.answers, Len(fo.queries))
        /\ fo.results[CombinedKey].total_rows = Len(fo.results[CombinedKey].data)

\* a fan-out of two queries on two connections has returned a combined set of at
\* least three rows, the first from query 1 and the last from query 2
C2_Witness ==
    /\ fo.pc = "done" /\ fo.combine_results /\ Len(fo.queries) = 2
    /\ LET data == fo.results[CombinedKey].data
       IN  /\ Len(data) >= 3
           /\ data[1]["_source_query"] = 1
           /\ data[Len(data)]["_source_query"] = 2
           /\ data[1]["_source_connection"] # data[Len(data)]["_source_connection"]

-----------------------------------------------------------------------------
(* Properties of the adapters and of the dispatcher's operations.          *)

\* the adapter registered under a name, before and after a step
Before(name) == manager.connections[name]
After(name) == manager'.connections[name]

\* C11 (as claimed): connect on a connected adapter, and disconnect on an adapter
\* that is not connected, raise nothing and leave the flag and the handle of the
\* adapter as they were.
C11_ConnectDisconnectIdempotent ==
    [][ /\ (last'.op = "connect" /\ Before(last'.name).is_connected)
             => (last'.error = NoError /\ After(last'.name) = Before(last'.name))
        /\ (last'.op = "disconnect" /\ ~Before(last'.name).is_connected)
             => (last'.error = NoError /\ After(last'.name) = Before(last'.name))
      ]_vars

\* C12: a connect that fails raises DatabaseConnectionError and leaves the flag
\* cleared; a connect on an adapter that is not connected fails whenever the
\* driver fails to create the handle or to answer the probe; the flag is set
\* only by a connect whose probe succeeded.
C12_ConnectFailureLeavesDisconnected ==
    [][ last'.op = "connect" =>
          /\ last'.error # NoError =>
                /\ last'.error.raised = "DatabaseConnectionError"
                /\ ~After(last'.name).is_connected
          /\ (~Before(last'.name).is_connected /\ last'.driver # "ok")
                => last'.error # NoError
          /\ (After(last'.name).is_connected /\ ~Before(last'.name).is_connected)
                => last'.driver = "ok"
      ]_vars

\* a connect whose probe failed has raised
C12_Witness ==
    /\ last.op = "connect" /\ last.driver = "probe_fails"
    /\ last.error.raised = "DatabaseConnectionError"
    /\ ~manager.connections[last.name].is_connected

\* the text names the connection
NamesConnection(message, name) == \E i \in DOMAIN message : message[i] = name

\* C13: execute raises DatabaseConnectionError exactly when the name is not
\* registered; under a registered name every failure is a DatabaseQueryError
\* whose message names the connection; a Result carries the name asked for.
C13_ExecuteErrors ==
    last.op = "execute" =>
        /\ last.error.raised = "DatabaseConnectionError"
              <=> last.name \notin DOMAIN manager.connections
        /\ (last.name \in DOMAIN manager.connections /\ last.error # NoError) =>
              /\ last.error.raised = "DatabaseQueryError"
              /\ NamesConnection(last.error.message, last.name)
        /\ last.error = NoError => last.result.connection_name = last.name

\* an execute under a registered name has failed, and another has succeeded
C13_Witness ==
    /\ last.op = "execute" /\ last.name \in DOMAIN manager.connections
    /\ last.error.raised = "DatabaseQueryError"
    /\ last.text = tDropX

\* the test of an adapter succeeds: it connects (or is connected), the schema
\* probe works and the disconnect works
TestSucceeds(ad, o) ==
    /\ (ad.is_connected /\ ad.handle # NoHandle) \/ o.co = "ok"
    /\ o.ok
    /\ o.do = "ok"

\* C14: test_all_connections returns one entry per registered connection, with
\* status success or error, and the entry of a connection is decided by what
\* happens on that connection alone; test_connection of an unknown name returns
\* an error entry.
C14_TestAllReportsEvery ==
    [][ /\ last'.op = "test_all_connections" =>
             LET tests == last'.result.connection_tests
             IN  /\ DOMAIN tests = DOMAIN manager.connections
                 /\ \A n \in DOMAIN manager.connections :
                       /\ tests[n].status \in {"success", "error"}
                       /\ tests[n].status = "success"
                             <=> TestSucceeds(Before(n), last'.driver[n])
        /\ (last'.op = "test_connection" /\ last'.name \notin DOMAIN manager.connections)
             => last'.result.status = "error"
      ]_vars

\* a batch in which one connection failed its test and another passed
C14_Witness ==
    /\ last.op = "test_all_connections"
    /\ \E n, m \in DOMAIN last.result.connection_tests :
          /\ last.result.connection_tests[n].status = "error"
          /\ last.result.connection_tests[m].status = "success"

\* C15: disconnect_all raises nothing, and every adapter whose disconnect did not
\* raise is afterwards not connected and holds no handle.
C15_DisconnectAllBestEffort ==
    [][ last'.op = "disconnect_all" =>
          /\ last'.error = NoError
          /\ \A n \in DOMAIN manager.connections :
                (Before(n).handle = NoHandle \/ last'.driver[n] = "ok")
                   => (~After(n).is_connected /\ After(n).handle = NoHandle)
      ]_vars

\* a disconnect_all in which the disconnect of one connected adapter raised, so
\* that it is still connected, and the others went on to be released
C15_Witness ==
    /\ last.op = "disconnect_all"
    /\ \E n, m \in DOMAIN manager.connections :
          /\ last.driver[n] = "fails" /\ manager.connections[n].is_connected
          /\ last.driver[m] = "ok" /\ ~manager.connections[m].is_connected

-----------------------------------------------------------------------------
(* Properties of loading and persisting the descriptors.                   *)

\* the names whose environment group is taken as a descriptor
EnvDerived == {n \in DOMAIN last.db_vars : "database_type" \in DOMAIN last.db_vars[n]}

\* the names the config file gave: it is configured, exists and is JSON
FileDerived == IF file.configured /\ file.state = "written" THEN DOMAIN file.content ELSE {}

\* the same fields with the same values, the backend kind compared without case
SameUpToKind(d, e) ==
    /\ DOMAIN d = DOMAIN e
    /\ \A k \in DOMAIN e :
          IF k = "database_type" THEN Lower(d[k]) = Lower(e[k]) ELSE d[k] = e[k]

\* C16 (amended): after loading, the store holds the names of the environment
\* descriptors and of the file; under a name of the file the descriptor has
\* exactly the fields of the file entry, with the values of the file entry, the
\* backend kind apart, which may differ from the file's in letter case only;
\* under the other names it is the environment descriptor in the same sense.
C16_FileReplacesEnvironment ==
    last.op = "load" =>
        /\ DOMAIN database_configs = EnvDerived \cup FileDerived
        /\ \A n \in FileDerived : SameUpToKind(database_configs[n], file.content[n])
        /\ \A n \in EnvDerived \ FileDerived :
              SameUpToKind(database_configs[n], last.db_vars[n])

\* a name in both sources, whose environment password is not in the file entry
\* and is not in the store
C16_Witness ==
    /\ last.op = "load"
    /\ \E n \in FileDerived \cap EnvDerived :
          /\ "password" \in DOMAIN last.db_vars[n]
          /\ "password" \notin DOMAIN file.content[n]
          /\ "password" \notin DOMAIN database_configs[n]

\* C16 (as claimed): under a name of the file the loaded descriptor is exactly
\* the file entry; under a name of the environment only it is the environment
\* descriptor.
C16_ExactlyTheFileEntry ==
    last.op = "load" =>
        /\ DOMAIN database_configs = EnvDerived \cup FileDerived
        /\ \A n \in FileDerived : database_configs[n] = file.content[n]
        /\ \A n \in EnvDerived \ FileDerived : database_configs[n] = last.db_vars[n]

\* C17 (as claimed): after loading, every descriptor of the store has
\* database_type, no adapter exists for a descriptor without it, and an
\* environment group without it is not in the store.
C17_UntypedRejectedAtLoad ==
    last.op = "load" =>
        /\ \A n \in DOMAIN database_configs : "database_type" \in DOMAIN database_configs[n]
        /\ \A n \in DOMAIN manager.connections :
              "database_type" \in DOMAIN database_configs[n]
        /\ \A n \in DOMAIN last.db_vars \ FileDerived :
              "database_type" \notin DOMAIN last.db_vars[n] => n \notin DOMAIN database_configs

Mutations == {"add_connection", "remove_connection", "update_connection"}

\* C18 (as claimed): when a mutation returns success and a config file is
\* configured, the file then holds the descriptor set of the store; when it
\* returns an error the file is as it was.
C18_FileTracksSuccessfulMutations ==
    [][ last'.op \in Mutations =>
          /\ (last'.status = "success" /\ file.configured)
                => (file'.state = "written" /\ file'.content = database_configs')
          /\ last'.status = "error" => file' = file
      ]_vars

-----------------------------------------------------------------------------
(* Properties of the public tool.                                          *)

\* the value the tool returned reports a failure
FailurePayload(result) == "status" \in DOMAIN result /\ result.status = "error"

\* C19 (as claimed): whatever DatabaseTool.execute is asked, what it returns
\* for a failure, an exception of a method behind it or a failure the method
\* reports itself, is a payload with status error, the action name and a
\* message.
C19_FailuresAreStructured ==
    last.op = "tool_execute" =>
        /\ last.raised # "" => FailurePayload(last.result)
        /\ (last.raised # ""
              \/ (last.action # "cross_database_query" /\ FailurePayload(last.result)))
             => /\ "action" \in DOMAIN last.result
                /\ last.result.action = last.action
                /\ {"message", "error"} \cap DOMAIN last.result # {}

\* C20 (as claimed): add_connection, remove_connection and update_connection,
\* asked of the tool with the arguments they need, return {status, message} and
\* not a failure, and the store then has (add, update) or has not (remove) the
\* name.
C20_MutationsSupported ==
    [][ (last'.op = "tool_execute" /\ last'.action \in Mutations /\ tool.config_tool
           /\ (last'.action = "add_connection"
                  <=> last'.kwargs["connection_name"] \notin DOMAIN database_configs))
        => /\ DOMAIN last'.result = {"status", "message"}
           /\ last'.result.status = "success"
           /\ (last'.kwargs["connection_name"] \in DOMAIN database_configs')
                 <=> last'.action # "remove_connection"
      ]_vars


\* an adapter as __init__ leaves it
Fresh(ad) == ~ad.is_connected /\ ad.handle = NoHandle

\* C21: remove_connection of a known name returns success; the name is then in
\* neither the store nor the dispatcher and the other descriptors are as they
\* were; the dispatcher is None exactly when the store is empty, and otherwise
\* is a new one whose adapters belong to descriptors that remain.
C21_RemoveConnection ==
    [][ (last'.op = "remove_connection" /\ last'.name \in DOMAIN database_configs) =>
          /\ last'.status = "success"
          /\ DOMAIN database_configs' = DOMAIN database_configs \ {last'.name}
          /\ \A n \in DOMAIN database_configs' : database_configs'[n] = database_configs[n]
          /\ last'.name \notin DOMAIN manager'.connections
          /\ manager'.exists <=> DOMAIN database_configs' # {}
          /\ DOMAIN manager'.connections \subseteq DOMAIN database_configs'
          /\ \A n \in DOMAIN manager'.connections :
                /\ Fresh(manager'.connections[n])
                /\ "database_type" \in DOMAIN database_configs'[n]
                      => manager'.connections[n].database_type
                            = Lower(database_configs'[n]["database_type"])
      ]_vars

\* a removal that left a descriptor and its adapter behind
C21_Witness ==
    /\ last.op = "remove_connection" /\ last.status = "success"
    /\ last.name \notin DOMAIN database_configs
    /\ manager.exists /\ DOMAIN manager.connections # {}


-----------------------------------------------------------------------------
(* Properties of execute: the order of its steps, the adapter's life cycle. *)

\* the name asked of the dispatcher is one it has an adapter for
Registered(name) == name \in DOMAIN manager.connections

\* C22: execute_query is called only with a text that validate accepted, and
\* what it is given is the limit-rewritten text, the one the Result reports in
\* its query field; a text validate rejects is not given to execute_query.
C22_ValidateLimitThenQuery ==
    (last.op = "execute" /\ Registered(last.name)) =>
        /\ last.sent \in {<<>>, <<ApplyLimit(last.text, DefaultLimit)>>}
        /\ last.sent # <<>> => ValidateQuery(last.text) = NoError
        /\ ValidateQuery(last.text) # NoError => last.sent = <<>>
        /\ last.error = NoError => last.sent = <<last.result.query>>

\* a query that ran: the backend was given the text with the limit appended
C22_Witness ==
    /\ last.op = "execute" /\ last.error = NoError
    /\ last.sent = <<last.result.query>>
    /\ last.result.query # last.text


\* the operations that use the backend of one named adapter
LazyOps == {"execute", "get_connection_info", "get_table_info"}

\* the adapter is connected and holds its handle
Live(ad) == ad.is_connected /\ ad.handle # NoHandle

\* C23: the adapters of a new dispatcher are not connected; an execute, a
\* get_connection_info or a get_table_info that succeeds on a registered
\* adapter, connected before or not, leaves the adapter connected, and so does
\* every execute that gave its text to the backend: the backend is not asked
\* through an adapter that is not connected.
C23_LazyConnection ==
    [][ /\ last.op = "none" => \A n \in DOMAIN manager.connections : Fresh(Before(n))
        /\ (last'.op \in LazyOps /\ Registered(last'.name)) =>
              /\ last'.error = NoError => Live(After(last'.name))
              /\ (last'.op = "execute" /\ last'.sent # <<>>) => Live(After(last'.name))
              /\ (~Live(Before(last'.name)) /\ last'.op # "execute"
                    /\ last'.driver.co # "ok") => last'.error # NoError
      ]_vars

\* a call on a registered adapter has succeeded and the adapter is connected,
\* as is the other adapter of the dispatcher
C23_Witness ==
    /\ last.op \in LazyOps /\ Registered(last.name)
    /\ last.error = NoError
    /\ Live(manager.connections[last.name])
    /\ \E n \in DOMAIN manager.connections : n # last.name /\ Live(manager.connections[n])


\* C24 (as claimed): in every state of every adapter the connected flag is set
\* exactly when a handle is held.
C24_FlagAgreesWithHandle ==
    \A n \in DOMAIN manager.connections :
        manager.connections[n].is_connected <=> manager.connections[n].handle # NoHandle

\* ---------------------------------------------------------------------------
\* Coroutines on one adapter (db_tools/sql.py)
\*
\* The adapter's methods are coroutines of one event loop: the code between two
\* awaits runs without interruption, and at an await any other coroutine may
\* run. Engines are numbered in the order create_async_engine makes them;
\* NoEngine is None.
\* ---------------------------------------------------------------------------

NoEngine == 0

Coroutines == {"t1", "t2"}

\* calls one coroutine makes, one after the other
MaxCalls == 2

Idle(n) == [pc |-> "idle", conn |-> NoEngine, calls |-> n]

ProbeOutcomes == {"ok", "fails"}

TasksInit ==
    /\ query = <<>>
    /\ guard = GuardIdle
    /\ QuietRest
    /\ tasks = [is_connected |-> FALSE, engine |-> NoEngine,
                created |-> 0, released |-> {}, null_handle |-> FALSE,
                co |-> [t \in Coroutines |-> Idle(0)]]

\* execute_query up to its first await: connect() when the flag or the engine
\* is missing, which creates an engine, stores it and starts the probe on it;
\* otherwise the query starts on the stored engine
CallExecuteQuery(t) ==
    /\ tasks.co[t].pc = "idle"
    /\ tasks.co[t].calls < MaxCalls
    /\ IF ~tasks.is_connected \/ tasks.engine = NoEngine
       THEN tasks' = [tasks EXCEPT !.engine = tasks.created + 1,
                                   !.created = tasks.created + 1,
                                   !.co[t].pc = "probe",
                                   !.co[t].conn = tasks.created + 1]
       ELSE tasks' = [tasks EXCEPT !.co[t].pc = "query",
                                   !.co[t].conn = tasks.engine]
    /\ UNCHANGED <<query, guard, database_configs, manager, file, drivers, tool, discarded, last, fo>>

\* connect() after its probe: the flag is set, and execute_query goes on to
\* self.engine.begin() on whatever the adapter holds now; a failed probe clears
\* the flag and ends the call
ProbeReturns(t, o) ==
    /\ tasks.co[t].pc = "probe"
    /\ IF o = "fails"
       THEN tasks' = [tasks EXCEPT !.is_connected = FALSE,
                                   !.co[t] = Idle(tasks.co[t].calls + 1)]
       ELSE IF tasks.engine = NoEngine
            THEN tasks' = [tasks EXCEPT !.is_connected = TRUE,
                                        !.null_handle = TRUE,
                                        !.co[t] = Idle(tasks.co[t].calls + 1)]
            ELSE tasks' = [tasks EXCEPT !.is_connected = TRUE,
                                        !.co[t].pc = "query",
                                        !.co[t].conn = tasks.engine]
    /\ UNCHANGED <<query, guard, database_configs, manager, file, drivers, tool, discarded, last, fo>>

\* the query's awaits are over: execute_query returns
QueryReturns(t) ==
    /\ tasks.co[t].pc = "query"
    /\ tasks' = [tasks EXCEPT !.co[t] = Idle(tasks.co[t].calls + 1)]
    /\ UNCHANGED <<query, guard, database_configs, manager, file, drivers, tool, discarded, last, fo>>

\* disconnect() up to its await: dispose of the stored engine, or nothing to
\* dispose of and the flag is cleared
CallDisconnect(t) ==
    /\ tasks.co[t].pc = "idle"
    /\ tasks.co[t].calls < MaxCalls
    /\ IF tasks.engine # NoEngine
       THEN tasks' = [tasks EXCEPT !.co[t].pc = "dispose",
                                   !.co[t].conn = tasks.engine]
       ELSE tasks' = [tasks EXCEPT !.is_connected = FALSE,
                                   !.co[t] = Idle(tasks.co[t].calls + 1)]
    /\ UNCHANGED <<query, guard, database_configs, manager, file, drivers, tool, discarded, last, fo>>

\* disconnect() after dispose(): the engine it disposed of is released, and
\* the adapter's engine, whichever it is now, is forgotten
DisposeReturns(t) ==
    /\ tasks.co[t].pc = "dispose"
    /\ tasks' = [tasks EXCEPT !.released = tasks.released \cup {tasks.co[t].conn},
                              !.engine = NoEngine,
                              !.is_connected = FALSE,
                              !.co[t] = Idle(tasks.co[t].calls + 1)]
    /\ UNCHANGED <<query, guard, database_configs, manager, file, drivers, tool, discarded, last, fo>>

TasksNext ==
    \/ \E t \in Coroutines : CallExecuteQuery(t)
    \/ \E t \in Coroutines, o \in ProbeOutcomes : ProbeReturns(t, o)
    \/ \E t \in Coroutines : QueryReturns(t)
    \/ \E t \in Coroutines : CallDisconnect(t)
    \/ \E t \in Coroutines : DisposeReturns(t)

SpecTasks == TasksInit /\ [][TasksNext]_vars

\* ---------------------------------------------------------------------------
\* Properties of coroutines on one adapter
\* ---------------------------------------------------------------------------

\* the engines that exist and that nothing refers to any more
Lost ==
    {h \in 1..tasks.created :
        /\ h \notin tasks.released
        /\ h # tasks.engine
        /\ \A t \in Coroutines : ~(tasks.co[t].pc = "dispose" /\ tasks.co[t].conn = h)}

\* C25 (as claimed): however the calls on one adapter interleave, at most one
\* engine is unreleased at a time, no engine is dropped without being released,
\* and no query is started on an adapter whose engine is None.
C25_InterleavingsAreSafe ==
    /\ Cardinality((1..tasks.created) \ tasks.released) <= 1
    /\ Lost = {}
    /\ ~tasks.null_handle

\* ---------------------------------------------------------------------------
\* Properties of the fan-out's per-query entries
\* ---------------------------------------------------------------------------

\* the entry the finished call holds for its i-th query spec
EntryOf(i) == fo.results[Key(i - 1, fo.queries[i]["connection_name"])]

\* C26 (as claimed): when the call is over, the entry of every successful json
\* sub-query holds the rows the adapter returned, each with the fields of the
\* entry's columns list and no other, whether combine_results was set or not.
C26_CombineLeavesEntries ==
    fo.pc = "done" =>
        \A i \in 1..Len(fo.answers) :
            (fo.answers[i].ok /\ Get(fo.queries[i], "format", "json") = "json") =>
                /\ EntryOf(i).results = fo.answers[i].result.results
                /\ \A k \in DOMAIN EntryOf(i).results :
                      DOMAIN EntryOf(i).results[k] = Range(EntryOf(i).columns)

\* ---------------------------------------------------------------------------
\* Properties of test_connection and of the guard inside execute
\* ---------------------------------------------------------------------------

\* C27 (as claimed): when test_connection has returned, with a release that
\* itself does not fail, the tested adapter is not connected and holds no
\* handle, whether the connect failed, the schema probe failed or the test
\* succeeded.
C27_TestLeavesDisconnected ==
    (last.op = "test_connection" /\ Registered(last.name) /\ last.driver.do = "ok") =>
        Fresh(manager.connections[last.name])

\* C30 (as claimed): an execute on a registered adapter with a text the guard
\* rejects leaves the flag and the handle of the adapter as they were, and the
\* error it raises is the guard's rejection.
C30_RejectedTextTouchesNothing ==
    [][ (/\ last'.op = "execute"
         /\ Registered(last'.name)
         /\ ValidateQuery(last'.text) # NoError) =>
            /\ After(last'.name).is_connected = Before(last'.name).is_connected
            /\ After(last'.name).handle = Before(last'.name).handle
            /\ last'.error # NoError
            /\ \E i \in DOMAIN last'.error.message :
                  last'.error.message[i] = ValidateQuery(last'.text).message[1] ]_vars

\* ---------------------------------------------------------------------------
\* execute with a row limit, on the dispatcher of two adapters
\* ---------------------------------------------------------------------------

\* texts that mention LIMIT already: as a clause, and inside an identifier
tSelectXLimit2 == tSelectX \o <<" ">> \o kLIMIT \o <<" ", "2">>
tSelectXlimit == tSelectX \o <<"l","i","m","i","t">>

LimitTexts == {tSelectX, tSelectX \o <<";">>, tSelectXLimit2, tSelectXlimit, tDropX}

\* the row limits asked for
AskedLimits == {1, 2, DefaultLimit}

\* DatabaseManagerTool.execute with the caller's limit
ExecuteWithLimit(name, text, limit, qo) ==
    /\ LET r == ManagerExecute(manager, name, text, limit, "json", "ok", qo)
       IN  /\ manager' = r.mgr
           /\ last' = [Executed(name, text, r) EXCEPT !.op = "execute_limit"]
                      @@ [limit |-> limit, driver |-> qo]
    /\ UNCHANGED <<query, guard, database_configs, file, drivers, tasks, tool, discarded, fo>>

LimitNext ==
    \E name \in Names, text \in LimitTexts, limit \in AskedLimits, qo \in QueryOutcomes :
        ExecuteWithLimit(name, text, limit, qo)

SpecLimit == FanOutInit /\ [][LimitNext]_vars

\* ---------------------------------------------------------------------------
\* Properties of the row limit
\* ---------------------------------------------------------------------------

\* s.endswith(suf)
EndsWith(s, suf) ==
    Len(s) >= Len(suf) /\ SubSeq(s, Len(s) - Len(suf) + 1, Len(s)) = suf

\* an answer of n rows honours the LIMIT clause the text q ends with, if any
HonoursLimit(q, n) ==
    \A k \in 0..DefaultLimit :
        EndsWith(Upper(q), <<" ">> \o kLIMIT \o <<" ">> \o NatToChars(k)) => n <= k

\* C28 (as claimed): when execute returns a Result from a backend that honoured
\* the LIMIT clause of the text it was given, row_count is at most
\* metadata.limit_applied, and row_count is the number of rows the backend
\* returned.
C28_LimitBoundsRows ==
    (/\ last.op = "execute_limit"
     /\ last.error = NoError
     /\ HonoursLimit(last.sent[1], last.driver.n)) =>
        /\ last.result.row_count = last.driver.n
        /\ last.result.row_count <= last.result.metadata.limit_applied

\* ---------------------------------------------------------------------------
\* Properties of the public tool's dispatcher
\* ---------------------------------------------------------------------------

\* C29 (as claimed): whatever add_connection, remove_connection and
\* update_connection calls were made on its config tool, the dispatcher the
\* public tool holds is the one the config tool holds now: None together, and
\* answering to the same connection names.
C29_ToolFollowsConfigTool ==
    tool.config_tool => tool.manager = Held(manager)

====
